---- MODULE Spec2Model ----
(***************************************************************************)
(* Model of server/filesystem.go (path confinement, directory size, disk   *)
(* quota) and of the global configuration (package config) of the wings    *)
(* daemon.  Paths are strings, handled character by character as the Go    *)
(* code handles them.                                                      *)
(***************************************************************************)
EXTENDS Integers, Sequences, FiniteSets, TLC

VARIABLES fs, disk, quota, cache, now, call, frames,
          structs, arrays, _config, _jwtAlgo, _debugViaFlag, _writeLock,
          proc, file, openat2, openat2Set, openat2Supported

\* The state of the filesystem of a server and of its callers: fs is the
\* Filesystem struct (its Root, and the Uuid of its Server).
fsvars == <<fs, disk, quota, cache, now, call, frames>>

\* The state of package config: the heap of Configuration structs and of
\* the backing arrays of their slices, the package variables, the goroutines
\* that call into the package, and the configuration file.
cfgvars == <<structs, arrays, _config, _jwtAlgo, _debugViaFlag, _writeLock,
             proc, file, openat2, openat2Set, openat2Supported>>

\* The two atomic.Bool of UseOpenat2, and whether the kernel of the machine
\* has the openat2 system call.
atomics == <<openat2, openat2Set, openat2Supported>>

vars == <<fs, disk, quota, cache, now, call, frames,
          structs, arrays, _config, _jwtAlgo, _debugViaFlag, _writeLock,
          proc, file, openat2, openat2Set, openat2Supported>>

(***************************************************************************)
(* strings and path/filepath                                               *)
(***************************************************************************)

\* strings.HasPrefix(s, prefix): a byte-wise prefix test.
HasPrefix(s, prefix) ==
    /\ Len(s) >= Len(prefix)
    /\ SubSeq(s, 1, Len(prefix)) = prefix

RECURSIVE SplitFrom(_, _, _)
SplitFrom(s, i, start) ==
    IF i > Len(s) THEN <<SubSeq(s, start, Len(s))>>
    ELSE IF SubSeq(s, i, i) = "/"
         THEN <<SubSeq(s, start, i - 1)>> \o SplitFrom(s, i + 1, i + 1)
         ELSE SplitFrom(s, i + 1, start)

\* strings.Split(s, "/")
Split(s) == SplitFrom(s, 1, 1)

RECURSIVE JoinSep(_)
\* strings.Join(parts, "/")
JoinSep(parts) ==
    IF Len(parts) = 0 THEN ""
    ELSE IF Len(parts) = 1 THEN parts[1]
    ELSE parts[1] \o "/" \o JoinSep(Tail(parts))

IsRooted(path) == Len(path) > 0 /\ SubSeq(path, 1, 1) = "/"

RECURSIVE CleanStack(_, _, _)
\* The component stack filepath.Clean builds: "" and "." are dropped, ".."
\* removes the last kept component (at the root it is dropped, in a relative
\* path that has nothing left to remove it is kept).
CleanStack(comps, stack, rooted) ==
    IF Len(comps) = 0 THEN stack
    ELSE LET c == Head(comps)
             rest == Tail(comps)
         IN  IF c = "" \/ c = "." THEN CleanStack(rest, stack, rooted)
             ELSE IF c = ".."
                  THEN IF Len(stack) > 0 /\ stack[Len(stack)] # ".."
                       THEN CleanStack(rest, SubSeq(stack, 1, Len(stack) - 1), rooted)
                       ELSE IF rooted THEN CleanStack(rest, stack, rooted)
                            ELSE CleanStack(rest, Append(stack, ".."), rooted)
                  ELSE CleanStack(rest, Append(stack, c), rooted)

\* The path filepath.Clean returns for the kept components.
CleanOut(rooted, stack) ==
    IF rooted THEN "/" \o JoinSep(stack)
    ELSE IF Len(stack) = 0 THEN "." ELSE JoinSep(stack)

\* filepath.Clean(path)
Clean(path) ==
    CleanOut(IsRooted(path), CleanStack(Split(path), <<>>, IsRooted(path)))

\* filepath.Join(a, b): empty elements are ignored, the rest joined by "/"
\* and cleaned.
Join(a, b) ==
    IF a = "" /\ b = "" THEN ""
    ELSE Clean(IF a = "" THEN b ELSE IF b = "" THEN a ELSE a \o "/" \o b)

RECURSIVE LastSlash(_, _)
LastSlash(path, i) ==
    IF i = 0 THEN 0
    ELSE IF SubSeq(path, i, i) = "/" THEN i
    ELSE LastSlash(path, i - 1)

\* filepath.Dir(path): all but the last element, cleaned.
Dir(path) == Clean(SubSeq(path, 1, LastSlash(path, Len(path))))

(***************************************************************************)
(* the disk: a function from absolute paths to nodes                       *)
(***************************************************************************)

\* Filesystem.Root, the base directory of all servers' data.
Root == "/data"

\* Server.Uuid, the identifier of the server this Filesystem belongs to.
Uuid == "srv-1"

\* A Filesystem with its base directory and the identifier of its server.
Filesystem(root, uuid) == [Root |-> root, Uuid |-> uuid]

\* PathOf gluing the identifier to the base directory.
PathOf_Glued(f) == f.Root \o "/" \o f.Uuid

\* Filesystem.Path() of the Filesystem f.
PathOf(f) == Join(f.Root, f.Uuid)

\* Filesystem.Path(): the confined root of the server the disks are laid
\* out for.
Path == PathOf(Filesystem(Root, Uuid))

DirNode == [kind |-> "dir", denied |-> FALSE, size |-> 0, target |-> ""]
\* A directory without read and search permission (mode 000).
DeniedDir == [kind |-> "dir", denied |-> TRUE, size |-> 0, target |-> ""]
FileNode(n) == [kind |-> "file", denied |-> FALSE, size |-> n, target |-> ""]
\* A symbolic link; lstat reports the length of its target as its size.
LinkNode(t) == [kind |-> "link", denied |-> FALSE, size |-> Len(t), target |-> t]

RECURSIVE DeniedAbove(_, _)
RECURSIVE DeniedFrom(_, _)
\* Some directory strictly above q refuses search permission.
DeniedAbove(d, q) ==
    IF q = "/" \/ q = "." THEN FALSE ELSE DeniedFrom(d, Dir(q))

\* The directory up or one above it refuses search permission.
DeniedFrom(d, up) ==
    \/ (up \in DOMAIN d /\ d[up].denied)
    \/ DeniedAbove(d, up)

\* lstat of the cleaned path q: EACCES below a directory that refuses search
\* permission, ENOENT when nothing is there.
LstatAt(d, q) ==
    IF DeniedAbove(d, q) THEN [err |-> "EACCES", node |-> DirNode]
    ELSE IF q \notin DOMAIN d THEN [err |-> "ENOENT", node |-> DirNode]
    ELSE [err |-> "", node |-> d[q]]

\* os.Lstat(dest) on disk d: the node dest names, without following a final
\* symbolic link.  dest is built by EvalSymlinks from resolved components, so
\* a ".." in it is resolved lexically.
Lstat(d, dest) == LstatAt(d, Clean(dest))

\* EvalSymlinks gives up after following this many links.  path/filepath
\* allows 255; no chain of links on the modelled disks is longer than 3, so
\* a walk that follows more than MaxLinks links is in a cycle there too.
MaxLinks == 8

RECURSIVE LastSlashAfterVol(_, _)
\* The last "/" of dest after the leading one, 0 when there is none.
LastSlashAfterVol(dest, i) ==
    IF i < 2 THEN 0
    ELSE IF SubSeq(dest, i, i) = "/" THEN i
    ELSE LastSlashAfterVol(dest, i - 1)

\* dest without its last component (the leading "/" is kept).
DropLast(dest) ==
    LET r == LastSlashAfterVol(dest, Len(dest))
    IN  IF r = 0 THEN "/" ELSE SubSeq(dest, 1, r - 1)

\* dest with the component c added.
AddComp(dest, c) ==
    IF Len(dest) > 0 /\ SubSeq(dest, Len(dest), Len(dest)) # "/"
    THEN dest \o "/" \o c
    ELSE dest \o c

\* The path that is left to walk when a link is found: the link's target
\* followed by the components after the link.
Relinked(link, rest) ==
    Split(IF Len(rest) > 0 THEN link \o "/" \o JoinSep(rest) ELSE link)

RECURSIVE WalkSymlinks(_, _, _, _)
RECURSIVE WalkNode(_, _, _, _, _)
\* path/filepath walkSymlinks for a rooted path: dest is the resolved part,
\* comps the components still to walk, links the number of links followed.
WalkSymlinks(d, dest, comps, links) ==
    IF Len(comps) = 0 THEN [path |-> Clean(dest), err |-> ""]
    ELSE IF Head(comps) = "" \/ Head(comps) = "."
    THEN WalkSymlinks(d, dest, Tail(comps), links)
    ELSE IF Head(comps) = ".."
    THEN WalkSymlinks(d,
           IF \/ LastSlashAfterVol(dest, Len(dest)) = 0
              \/ SubSeq(dest, LastSlashAfterVol(dest, Len(dest)) + 1, Len(dest)) = ".."
           THEN (IF Len(dest) > 1 THEN dest \o "/" ELSE dest) \o ".."
           ELSE SubSeq(dest, 1, LastSlashAfterVol(dest, Len(dest)) - 1),
           Tail(comps), links)
    ELSE WalkNode(d, AddComp(dest, Head(comps)), Tail(comps), links,
                  Lstat(d, AddComp(dest, Head(comps))))

\* The step of walkSymlinks after os.Lstat(nd) returned st: an error ends the
\* walk, a file with components left is ENOTDIR, a link is followed (from
\* the root when its target is rooted, from the link's directory otherwise).
WalkNode(d, nd, rest, links, st) ==
    IF st.err # "" THEN [path |-> "", err |-> st.err]
    ELSE IF st.node.kind # "link"
    THEN IF st.node.kind # "dir" /\ Len(rest) > 0
         THEN [path |-> "", err |-> "ENOTDIR"]
         ELSE WalkSymlinks(d, nd, rest, links)
    ELSE IF links + 1 > MaxLinks
    THEN [path |-> "", err |-> "ELOOP"]
    ELSE WalkSymlinks(d,
           IF IsRooted(st.node.target) THEN "/" ELSE DropLast(nd),
           Relinked(st.node.target, rest), links + 1)

\* filepath.EvalSymlinks(path) on disk d, for a rooted path: the path with
\* every symbolic link resolved, or the error of the first failing lstat.
EvalSymlinks(d, path) == WalkSymlinks(d, "/", Split(path), 0)

\* IsNotExist taking a file in the place of a directory for a missing path.
IsNotExist_OrNotDir(err) == err \in {"ENOENT", "ENOTDIR"}

\* os.IsNotExist(err)
IsNotExist(err) == err = "ENOENT"

(***************************************************************************)
(* Filesystem.SafePath                                                     *)
(***************************************************************************)

RECURSIVE AncestorWalk(_, _, _)
RECURSIVE AncestorTry(_, _, _, _)
RECURSIVE AncestorResolved(_, _, _, _)
\* The loop of SafePath over the parts of filepath.Dir(r), from the longest
\* prefix to the shortest: the result is nonExistentPathResolution, "" when
\* the loop breaks or ends without a resolution.
AncestorWalk(d, parts, k) ==
    IF k >= Len(parts) THEN ""
    ELSE AncestorTry(d, parts, k, JoinSep(SubSeq(parts, 1, Len(parts) - k)))

\* One round of the loop: it breaks when try does not start with the root.
AncestorTry(d, parts, k, try) ==
    IF ~HasPrefix(try, Path) THEN ""
    ELSE AncestorResolved(d, parts, k, EvalSymlinks(d, try))

\* The round after filepath.EvalSymlinks(try) returned t: a resolution ends
\* the loop, an error moves it one part up.
AncestorResolved(d, parts, k, t) ==
    IF t.err = "" THEN t.path ELSE AncestorWalk(d, parts, k + 1)

\* The normalized candidate r of SafePath(p).
Candidate(p) == Clean(Join(Path, p))

\* SafePathResult returning the resolved ancestor in place of the candidate.
SafePathResult_Ancestor(r, e, npr) ==
    IF e.err # "" /\ ~IsNotExist(e.err) THEN [path |-> "", err |-> e.err]
    ELSE IF npr # ""
    THEN IF ~HasPrefix(npr, Path)
         THEN [path |-> "", err |-> "InvalidPathResolution"]
         ELSE [path |-> npr, err |-> ""]
    ELSE IF HasPrefix(e.path, Path)
         THEN [path |-> e.path, err |-> ""]
         ELSE [path |-> "", err |-> "InvalidPathResolution"]

\* SafePathResult returning the candidate in place of its resolution.
SafePathResult_Unresolved(r, e, npr) ==
    IF e.err # "" /\ ~IsNotExist(e.err) THEN [path |-> "", err |-> e.err]
    ELSE IF npr # ""
    THEN IF ~HasPrefix(npr, Path)
         THEN [path |-> "", err |-> "InvalidPathResolution"]
         ELSE [path |-> r, err |-> ""]
    ELSE IF HasPrefix(e.path, Path)
         THEN [path |-> r, err |-> ""]
         ELSE [path |-> "", err |-> "InvalidPathResolution"]

\* The result of SafePath for the candidate r, e what EvalSymlinks(r)
\* returned and npr the nonExistentPathResolution of the loop.
SafePathResult(r, e, npr) ==
    IF e.err # "" /\ ~IsNotExist(e.err) THEN [path |-> "", err |-> e.err]
    ELSE IF npr # ""
    THEN IF ~HasPrefix(npr, Path)
         THEN [path |-> "", err |-> "InvalidPathResolution"]
         ELSE [path |-> r, err |-> ""]
    ELSE IF HasPrefix(e.path, Path)
         THEN [path |-> e.path, err |-> ""]
         ELSE [path |-> "", err |-> "InvalidPathResolution"]

\* SafePath from the resolution e of the candidate r: the loop over the
\* ancestors runs only when r does not exist.
SafePathFrom(d, r, e) ==
    SafePathResult(r, e,
        IF IsNotExist(e.err) THEN AncestorWalk(d, Split(Dir(r)), 0) ELSE "")

\* SafePath for the candidate r.
SafePathOf(d, r) == SafePathFrom(d, r, EvalSymlinks(d, r))

\* Filesystem.SafePath(p) on disk d: [path, err], err = "" for nil.
SafePath(d, p) == SafePathOf(d, Candidate(p))

(***************************************************************************)
(* ioutil.ReadDir                                                          *)
(***************************************************************************)

\* Every file name of the modelled disks, in byte order (ioutil.ReadDir
\* returns the entries sorted by name).
NameOrder == <<"a", "b", "d", "data", "etc", "f", "g", "h", "in", "l", "no",
               "passwd", "srv-1", "srv-10", "x">>

\* One os.FileInfo of a listing: Name(), IsDir(), Size().
EntryOf(name, node) ==
    [name |-> name, isdir |-> node.kind = "dir", size |-> node.size]

\* The entries of the directory dir, sorted by name.
Listing(d, dir, names) ==
    [i \in 1..Len(names) |-> EntryOf(names[i], d[Join(dir, names[i])])]

\* The listing of what the path resolved to: a file cannot be listed, nor
\* can a directory without read permission.
ReadDirAt(d, e) ==
    IF e.err # "" THEN [err |-> e.err, files |-> <<>>]
    ELSE IF d[e.path].kind # "dir" THEN [err |-> "ENOTDIR", files |-> <<>>]
    ELSE IF d[e.path].denied THEN [err |-> "EACCES", files |-> <<>>]
    ELSE [err |-> "",
          files |-> Listing(d, e.path,
                       SelectSeq(NameOrder, LAMBDA n : Join(e.path, n) \in DOMAIN d))]

\* ioutil.ReadDir(path) on disk d: [err, files].  Opening the directory
\* follows symbolic links; the entries are lstat'ed and sorted by name.
ReadDir(d, path) == ReadDirAt(d, EvalSymlinks(d, path))

(***************************************************************************)
(* the program state                                                       *)
(***************************************************************************)

\* Number of concurrent callers of the Filesystem methods.
NCallers == 2
Callers == 1..NCallers

\* The clock is counted in minutes up to MaxTime.
MaxTime == 6

\* The time-to-live HasSpaceAvailable gives the cached figure, in minutes.
TTL == 5

\* A caller that is in no call.
Idle == [op |-> "", pc |-> "idle", arg |-> "", path |-> "", err |-> "",
         n |-> 0, size |-> 0, ok |-> FALSE, looked |-> FALSE, exists |-> FALSE,
         walked |-> FALSE]

\* The cache without a "disk_used" entry.
NoEntry == [present |-> FALSE, value |-> 0, expiry |-> 0]

\* cache.Get("disk_used") at time t: an entry past its expiry is absent.
CacheGet(c, t) ==
    IF c.present /\ ~(t > c.expiry)
    THEN [exists |-> TRUE, value |-> c.value]
    ELSE [exists |-> FALSE, value |-> 0]

\* cache.Set("disk_used", v, ttl) at time t.
CacheSet(v, ttl, t) == [present |-> TRUE, value |-> v, expiry |-> t + ttl]

\* The deepest nesting of DirectorySize calls whose steps SpecWalk follows:
\* a goroutine started by a call nested that deep is started and not run.
\* No tree without a cycle of symbolic links among the modelled disks nests
\* calls deeper than three.
MaxDepth == 4

\* The activation of one DirectorySize(dir) call.
NewFrame(dir) ==
    [arg |-> dir, pc |-> "start", cleaned |-> "", files |-> <<>>, size |-> 0,
     wg |-> 0, kids |-> 0, tmp |-> 0, n |-> 0, err |-> ""]

\* The frame of the top-level call of caller c.
Top(c) == <<c>>
Parent(f) == SubSeq(f, 1, Len(f) - 1)
IsChild(f) == Len(f) > 1

\* The frames of the walk that caller c started.
FramesOf(c) == {f \in DOMAIN frames : f[1] = c}

(***************************************************************************)
(* the disks and requests the model is run on                              *)
(***************************************************************************)

\* What every disk holds: the base directory, the server's root, a sibling
\* server whose name extends the root's name, and a directory outside.
BaseDisk ==
    ("/" :> DirNode) @@ ("/data" :> DirNode) @@ ("/data/srv-1" :> DirNode)
    @@ ("/data/srv-10" :> DirNode) @@ ("/data/srv-10/x" :> FileNode(5))
    @@ ("/etc" :> DirNode) @@ ("/etc/passwd" :> FileNode(7))

\* Where the symbolic links of the generated disks point: outside the root,
\* to the sibling, inside the root, to nothing (dangling), to themselves.
LinkTargets ==
    {"/etc", "/data/srv-10", "../srv-10", "../../srv-10", "/data/srv-1/a",
     "a", "/etc/g", "/data/srv-10/g", "l", ".."}

AOpts ==
    {<<>>, "/data/srv-1/a" :> DirNode, "/data/srv-1/a" :> DeniedDir,
     "/data/srv-1/a" :> FileNode(10)}

BOpts(A) ==
    IF "/data/srv-1/a" \in DOMAIN A /\ A["/data/srv-1/a"].kind = "dir"
    THEN {<<>>, "/data/srv-1/a/b" :> DirNode, "/data/srv-1/a/b" :> FileNode(20)}
         \cup {"/data/srv-1/a/b" :> LinkNode(t) : t \in LinkTargets}
    ELSE {<<>>}

LOpts == {<<>>} \cup {"/data/srv-1/l" :> LinkNode(t) : t \in LinkTargets}

\* A link outside the root that points back into it.
InOpts == {<<>>, "/data/in" :> LinkNode("/data/srv-1")}

\* The disks SafePath is checked on.
PathDisks ==
    UNION {UNION {{BaseDisk @@ A @@ B @@ L @@ I : L \in LOpts, I \in InOpts}
                  : B \in BOpts(A)} : A \in AOpts}

\* The paths callers hand to SafePath.
Requests ==
    {"/", "", "a", "a/b", "a/b/g", "a/g/h", "g", "l", "l/x", "l/g", "l/g/h",
     "../srv-10", "../srv-10/x", "../srv-10/g", "../../etc/passwd",
     "../in/g", "../in/a", "/data/srv-1/a", "a/../../srv-10/x"}

\* The disks DirectorySize is checked on.
\* Files of 10, 20 and 30 bytes on two nesting levels.
DiskNested ==
    BaseDisk @@ ("/data/srv-1/f" :> FileNode(10)) @@ ("/data/srv-1/d" :> DirNode)
    @@ ("/data/srv-1/d/g" :> FileNode(20)) @@ ("/data/srv-1/d/h" :> FileNode(30))

\* Two subdirectories listed before a file.
DiskWide ==
    BaseDisk @@ ("/data/srv-1/a" :> DirNode) @@ ("/data/srv-1/b" :> DirNode)
    @@ ("/data/srv-1/a/g" :> FileNode(20)) @@ ("/data/srv-1/f" :> FileNode(10))

\* An unreadable subdirectory beside a file.
DiskDenied ==
    BaseDisk @@ ("/data/srv-1/f" :> FileNode(10)) @@ ("/data/srv-1/no" :> DeniedDir)
    @@ ("/data/srv-1/no/g" :> FileNode(20))

\* A root that holds a copy of its own path: root/data/srv-1/data exists.
DiskEmbedded ==
    BaseDisk @@ ("/data/srv-1/data" :> DirNode)
    @@ ("/data/srv-1/data/srv-1" :> DirNode)
    @@ ("/data/srv-1/data/srv-1/data" :> DirNode)
    @@ ("/data/srv-1/data/srv-1/data/g" :> FileNode(20))
    @@ ("/data/srv-1/f" :> FileNode(10))

\* A symbolic link to a directory among the entries.
DiskLinked ==
    BaseDisk @@ ("/data/srv-1/d" :> DirNode) @@ ("/data/srv-1/d/g" :> FileNode(20))
    @@ ("/data/srv-1/l" :> LinkNode("d")) @@ ("/data/srv-1/f" :> FileNode(10))

\* DiskEmbedded with a subdirectory two levels below the listing of the
\* root: a goroutine starts a goroutine.
DiskDeep ==
    DiskEmbedded @@ ("/data/srv-1/data/srv-1/data/d" :> DirNode)

\* Symbolic links below the root that lead root/data/srv-1/x/srv-1/d/a back
\* to the directory root/x/srv-1/d, which holds the directory a.
DiskCycle ==
    BaseDisk @@ ("/data/srv-1/d" :> DirNode)
    @@ ("/data/srv-1/data" :> LinkNode("x"))
    @@ ("/data/srv-1/x" :> DirNode) @@ ("/data/srv-1/x/srv-1" :> DirNode)
    @@ ("/data/srv-1/x/srv-1/d" :> DirNode)
    @@ ("/data/srv-1/x/srv-1/d/a" :> DirNode)
    @@ ("/data/srv-1/x/srv-1/x" :> DirNode)
    @@ ("/data/srv-1/x/srv-1/x/srv-1" :> DirNode)
    @@ ("/data/srv-1/x/srv-1/x/srv-1/d" :> DirNode)
    @@ ("/data/srv-1/x/srv-1/x/srv-1/d/a" :> LinkNode("/data/srv-1/x/srv-1/d"))

\* A symbolic link root/data that leads out of the root, beside a
\* subdirectory: the path of the subdirectory, joined to the root again,
\* passes through the link.
DiskOut ==
    BaseDisk @@ ("/data/srv-1/d" :> DirNode) @@ ("/data/srv-1/d/g" :> FileNode(20))
    @@ ("/data/srv-1/data" :> LinkNode("/etc")) @@ ("/data/srv-1/f" :> FileNode(10))

WalkDisks ==
    {DiskNested, DiskWide, DiskDenied, DiskEmbedded, DiskLinked, DiskDeep,
     DiskCycle, DiskOut}

\* The directories callers hand to DirectorySize.
WalkDirs == {"/", "d", "no", "g", "../../etc", "l"}

\* The disks HasSpaceAvailable is checked on: 3 MiB in one file, an empty
\* root, and a root that cannot be listed.  DiskMid holds 2 MiB beside a
\* subdirectory.
DiskBig == BaseDisk @@ ("/data/srv-1/f" :> FileNode(3145728))

DiskMid ==
    BaseDisk @@ ("/data/srv-1/d" :> DirNode) @@ ("/data/srv-1/f" :> FileNode(2097152))

DiskEmpty == BaseDisk

DiskLocked == ("/data/srv-1" :> DeniedDir) @@ BaseDisk

QuotaDisks == {DiskBig, DiskEmpty, DiskLocked}

\* Build.DiskSpace, in MiB; zero and below mean unlimited.
Quotas == {-1, 0, 2, 3}

\* The cache a server can hold when a check starts: nothing, or a figure
\* cached by an earlier check (the disk may have changed since).
InitCaches == {NoEntry, CacheSet(4194304, TTL, 0)}

(***************************************************************************)
(* Filesystem.SafePath, called by a caller                                 *)
(***************************************************************************)

\* The caller is in no call.
Free(c) == call[c].pc = "idle"

\* The caller has taken the result of its call and is ready for the next.
Forget(c) ==
    /\ call[c].pc = "done"
    /\ call' = [call EXCEPT ![c] = Idle]
    /\ UNCHANGED cfgvars /\ UNCHANGED <<fs, disk, quota, cache, now, frames>>

\* fs.Path(), called by a caller.
PathCall(c) ==
    /\ Free(c)
    /\ call' = [call EXCEPT ![c] =
                  [Idle EXCEPT !.op = "Path", !.pc = "done", !.path = PathOf(fs)]]
    /\ UNCHANGED cfgvars /\ UNCHANGED <<fs, disk, quota, cache, now, frames>>

SafePathCall(c, p) ==
    /\ Free(c)
    /\ LET r == SafePath(disk, p)
       IN  call' = [call EXCEPT ![c] =
                      [Idle EXCEPT !.op = "SafePath", !.pc = "done", !.arg = p,
                                   !.path = r.path, !.err = r.err]]
    /\ UNCHANGED cfgvars /\ UNCHANGED <<fs, disk, quota, cache, now, frames>>

(***************************************************************************)
(* Filesystem.DirectorySize: one frame per call, one goroutine per         *)
(* subdirectory.  "size += x" is a read of size followed by a write.       *)
(***************************************************************************)

DirectorySizeCall(c, dir) ==
    /\ Free(c)
    /\ call' = [call EXCEPT ![c] =
                  [Idle EXCEPT !.op = "DirectorySize", !.pc = "walk", !.arg = dir]]
    /\ frames' = frames @@ (Top(c) :> NewFrame(dir))
    /\ UNCHANGED cfgvars /\ UNCHANGED <<fs, disk, quota, cache, now>>

\* The frame after fs.SafePath(dir) returned sp and ioutil.ReadDir(cleaned)
\* returned rd: it returns (0, err) when either fails, and enters the loop
\* over the entries otherwise.
Listed(fr, cleaned, rd) ==
    IF rd.err # "" THEN [fr EXCEPT !.pc = "ret", !.n = 0, !.err = rd.err]
    ELSE [fr EXCEPT !.pc = "loop", !.cleaned = cleaned, !.files = rd.files]

\* Cleaned listing the joined path when SafePath has refused the argument.
Cleaned_Ungated(fr, d, sp) ==
    IF sp.err # ""
    THEN Listed(fr, Candidate(fr.arg), ReadDir(d, Candidate(fr.arg)))
    ELSE Listed(fr, sp.path, ReadDir(d, sp.path))

\* The frame after fs.SafePath(dir) returned sp: an error ends the call with
\* (0, err) before anything is listed.
Cleaned(fr, d, sp) ==
    IF sp.err # "" THEN [fr EXCEPT !.pc = "ret", !.n = 0, !.err = sp.err]
    ELSE Listed(fr, sp.path, ReadDir(d, sp.path))

Resolved(fr, d) == Cleaned(fr, d, SafePath(d, fr.arg))

Resolve(f) ==
    /\ frames[f].pc = "start"
    /\ frames' = [frames EXCEPT ![f] = Resolved(frames[f], disk)]
    /\ UNCHANGED cfgvars /\ UNCHANGED <<fs, disk, quota, cache, now, call>>

\* The argument of the goroutine started for the entry name of cleaned.
SubPath(cleaned, name) == Join(cleaned, name)

\* f.IsDir(): wg.Add(1) and a goroutine for the subdirectory.
Spawn(f) ==
    /\ frames[f].pc = "loop"
    /\ frames[f].files # <<>>
    /\ Head(frames[f].files).isdir
    /\ LET fr == frames[f]
           kid == f \o <<fr.kids + 1>>
       IN  frames' = [frames EXCEPT ![f] =
                        [fr EXCEPT !.wg = fr.wg + 1, !.kids = fr.kids + 1,
                                   !.files = Tail(fr.files)]]
                     @@ (kid :> NewFrame(SubPath(fr.cleaned, Head(fr.files).name)))
    /\ UNCHANGED cfgvars /\ UNCHANGED <<fs, disk, quota, cache, now, call>>

\* size += f.Size(), the read of size.
ReadSize(f) ==
    /\ frames[f].pc = "loop"
    /\ frames[f].files # <<>>
    /\ ~Head(frames[f].files).isdir
    /\ frames' = [frames EXCEPT ![f].tmp = frames[f].size, ![f].pc = "add"]
    /\ UNCHANGED cfgvars /\ UNCHANGED <<fs, disk, quota, cache, now, call>>

\* size += f.Size(), the write of size.
AddFile(f) ==
    /\ frames[f].pc = "add"
    /\ frames' = [frames EXCEPT ![f].size = frames[f].tmp + Head(frames[f].files).size,
                                ![f].files = Tail(frames[f].files),
                                ![f].pc = "loop"]
    /\ UNCHANGED cfgvars /\ UNCHANGED <<fs, disk, quota, cache, now, call>>

\* Joined letting wg.Wait() return while goroutines are running.
Joined_Early(wg) == wg >= 0

\* wg.Wait() returns when the counter of the WaitGroup is zero.
Joined(wg) == wg = 0

\* wg.Wait() and return size, nil.
Wait(f) ==
    /\ frames[f].pc = "loop"
    /\ frames[f].files = <<>>
    /\ Joined(frames[f].wg)
    /\ frames' = [frames EXCEPT ![f].pc = "ret", ![f].n = frames[f].size,
                                ![f].err = ""]
    /\ UNCHANGED cfgvars /\ UNCHANGED <<fs, disk, quota, cache, now, call>>

\* In the goroutine: s, _ := fs.DirectorySize(p) has returned; size += s
\* reads the size of the parent frame.
SubRead(f) ==
    /\ IsChild(f)
    /\ frames[f].pc = "ret"
    /\ frames' = [frames EXCEPT ![f].tmp = frames[Parent(f)].size, ![f].pc = "sum"]
    /\ UNCHANGED cfgvars /\ UNCHANGED <<fs, disk, quota, cache, now, call>>

\* The value the goroutine writes to the parent's size.
SubSum(read, s) == read + s

\* In the goroutine: size += s writes the parent's size; wg.Done().
SubWrite(f) ==
    /\ IsChild(f)
    /\ frames[f].pc = "sum"
    /\ frames' = [frames EXCEPT ![Parent(f)].size = SubSum(frames[f].tmp, frames[f].n),
                                ![Parent(f)].wg = frames[Parent(f)].wg - 1,
                                ![f].pc = "done"]
    /\ UNCHANGED cfgvars /\ UNCHANGED <<fs, disk, quota, cache, now, call>>

\* The frames left when the walk of caller c has returned.
Without(c) == [f \in DOMAIN frames \ FramesOf(c) |-> frames[f]]

\* DirectorySizeReturn storing the size it returns in the cache.
DirectorySizeReturn_Caching(c) ==
    /\ call[c].op = "DirectorySize"
    /\ call[c].pc = "walk"
    /\ frames[Top(c)].pc = "ret"
    /\ call' = [call EXCEPT ![c].pc = "done", ![c].n = frames[Top(c)].n,
                            ![c].err = frames[Top(c)].err]
    /\ cache' = CacheSet(frames[Top(c)].n, TTL, now)
    /\ frames' = Without(c)
    /\ UNCHANGED cfgvars /\ UNCHANGED <<fs, disk, quota, now>>

\* The caller takes what the top-level DirectorySize call returned.
DirectorySizeReturn(c) ==
    /\ call[c].op = "DirectorySize"
    /\ call[c].pc = "walk"
    /\ frames[Top(c)].pc = "ret"
    /\ call' = [call EXCEPT ![c].pc = "done", ![c].n = frames[Top(c)].n,
                            ![c].err = frames[Top(c)].err]
    /\ frames' = Without(c)
    /\ UNCHANGED cfgvars /\ UNCHANGED <<fs, disk, quota, cache, now>>

(***************************************************************************)
(* Filesystem.HasSpaceAvailable                                            *)
(***************************************************************************)

\* Unlimited with zero taken for a limit.
Unlimited_Negative(space) == space < 0

\* space <= 0: the server is allowed unlimited space.
Unlimited(space) == space <= 0

\* CachedSize marking a miss with -1.
CachedSize_MissMarked(get) == IF get.exists THEN get.value ELSE -1

\* The local size after the cache lookup.
CachedSize(get) == IF get.exists THEN get.value ELSE 0

\* NeedsWalk ignoring what the cache returned.
NeedsWalk_Always(size) == size >= 0

\* size == 0: nothing cached (or a cached figure of zero).
NeedsWalk(size) == size = 0

\* The size the final comparison reads after DirectorySize returned n: the
\* "size, err :=" of the if statement declares a new variable, the outer
\* size keeps its value.
SizeAfterWalk(outer, n) == outer

\* Fits with the comparison turned around.
Fits_Above(size, space) == ((size \div 1024) \div 1024) >= space

\* (size / 1024.0 / 1024.0) <= space, in int64 arithmetic.
Fits(size, space) == ((size \div 1024) \div 1024) <= space

HSAUnlimited(c) ==
    /\ Free(c)
    /\ Unlimited(quota)
    /\ call' = [call EXCEPT ![c] =
                  [Idle EXCEPT !.op = "HasSpaceAvailable", !.pc = "done", !.ok = TRUE]]
    /\ UNCHANGED cfgvars /\ UNCHANGED <<fs, disk, quota, cache, now, frames>>

HSAHit(c) ==
    /\ Free(c)
    /\ ~Unlimited(quota)
    /\ LET size == CachedSize(CacheGet(cache, now))
       IN  /\ ~NeedsWalk(size)
           /\ call' = [call EXCEPT ![c] =
                         [Idle EXCEPT !.op = "HasSpaceAvailable", !.pc = "done",
                                      !.size = size, !.looked = TRUE,
                                      !.exists = CacheGet(cache, now).exists,
                                      !.ok = Fits(size, quota)]]
    /\ UNCHANGED cfgvars /\ UNCHANGED <<fs, disk, quota, cache, now, frames>>

\* HSAMiss letting one walk run at a time: a caller that misses while the
\* walk of another is running does not start a second one.
HSAMiss_SingleFlight(c) ==
    /\ Free(c)
    /\ ~Unlimited(quota)
    /\ \A o \in Callers : call[o].pc # "walk"
    /\ LET size == CachedSize(CacheGet(cache, now))
       IN  /\ NeedsWalk(size)
           /\ call' = [call EXCEPT ![c] =
                         [Idle EXCEPT !.op = "HasSpaceAvailable", !.pc = "walk",
                                      !.arg = "/", !.size = size, !.looked = TRUE,
                                      !.exists = CacheGet(cache, now).exists,
                                      !.walked = TRUE]]
    /\ frames' = frames @@ (Top(c) :> NewFrame("/"))
    /\ UNCHANGED cfgvars /\ UNCHANGED <<fs, disk, quota, cache, now>>

\* The cache lookup found nothing to use: DirectorySize("/") is called.
HSAMiss(c) ==
    /\ Free(c)
    /\ ~Unlimited(quota)
    /\ LET size == CachedSize(CacheGet(cache, now))
       IN  /\ NeedsWalk(size)
           /\ call' = [call EXCEPT ![c] =
                         [Idle EXCEPT !.op = "HasSpaceAvailable", !.pc = "walk",
                                      !.arg = "/", !.size = size, !.looked = TRUE,
                                      !.exists = CacheGet(cache, now).exists,
                                      !.walked = TRUE]]
    /\ frames' = frames @@ (Top(c) :> NewFrame("/"))
    /\ UNCHANGED cfgvars /\ UNCHANGED <<fs, disk, quota, cache, now>>

\* Stored giving the entry one minute to live.
Stored_OneMinute(n, t) == CacheSet(n, 1, t)

\* fs.Server.Cache().Set("disk_used", size, time.Minute * 5) at time t, size
\* being what DirectorySize("/") returned.
Stored(n, t) == CacheSet(n, TTL, t)

\* DirectorySize("/") returned without error: the figure is cached.
HSAWalked(c) ==
    /\ call[c].op = "HasSpaceAvailable"
    /\ call[c].pc = "walk"
    /\ frames[Top(c)].pc = "ret"
    /\ frames[Top(c)].err = ""
    /\ cache' = Stored(frames[Top(c)].n, now)
    /\ call' = [call EXCEPT ![c].pc = "done", ![c].n = frames[Top(c)].n,
                            ![c].ok = Fits(SizeAfterWalk(call[c].size, frames[Top(c)].n),
                                           quota)]
    /\ frames' = Without(c)
    /\ UNCHANGED cfgvars /\ UNCHANGED <<fs, disk, quota, now>>

\* DirectorySize("/") failed: a warning is logged, nothing is cached.
HSAWalkFailed(c) ==
    /\ call[c].op = "HasSpaceAvailable"
    /\ call[c].pc = "walk"
    /\ frames[Top(c)].pc = "ret"
    /\ frames[Top(c)].err # ""
    /\ call' = [call EXCEPT ![c].pc = "done", ![c].err = frames[Top(c)].err,
                            ![c].ok = Fits(call[c].size, quota)]
    /\ frames' = Without(c)
    /\ UNCHANGED cfgvars /\ UNCHANGED <<fs, disk, quota, cache, now>>

\* A minute passes.
Tick ==
    /\ now < MaxTime
    /\ now' = now + 1
    /\ UNCHANGED cfgvars /\ UNCHANGED <<fs, disk, quota, cache, call, frames>>

\* The file the processes of the server write into the root and remove.
NewFile == "/data/srv-1/g"

\* A file is added to the data directory.
FileAdded ==
    /\ NewFile \notin DOMAIN disk
    /\ disk' = disk @@ (NewFile :> FileNode(1048576))
    /\ UNCHANGED cfgvars /\ UNCHANGED <<fs, quota, cache, now, call, frames>>

\* A file is removed from the data directory.
FileRemoved ==
    /\ NewFile \in DOMAIN disk
    /\ disk' = [p \in DOMAIN disk \ {NewFile} |-> disk[p]]
    /\ UNCHANGED cfgvars /\ UNCHANGED <<fs, quota, cache, now, call, frames>>

(***************************************************************************)
(* package config: Configuration structs, slices and the package variables *)
(***************************************************************************)

\* Number of goroutines that call into package config.
NProcs == 2
Procs == 1..NProcs

\* The values the callers write.
ConfigPath == "/etc/pelican/config.yml"
Tokens == {"t1", "t2"}
Mounts == {"m1", "m2"}

\* A nil slice: no backing array.  A slice is the number arr of its backing
\* array and its length; its capacity is the length of the array.
NilSlice == [arr |-> 0, len |-> 0]

\* The elements of the slice s, read through its backing array.
Elems(arrs, s) == IF s.arr = 0 THEN <<>> ELSE SubSeq(arrs[s.arr], 1, s.len)

\* The Configuration NewAtPath(path) returns: the defaults and the path.
NewAtPath(path) ==
    [Token |-> "", path |-> path, Debug |-> FALSE, AuthenticationToken |-> "",
     OpenatMode |-> "auto", AllowedMounts |-> NilSlice]

\* jwt.NewHS256([]byte(token)).
NewHS256(token) == [alg |-> "HS256", key |-> token]

\* What a Configuration holds, its slices read to their elements.
Value(st, arrs) == [st EXCEPT !.AllowedMounts = Elems(arrs, st.AllowedMounts)]

\* The first number that names no object of the set used.
FreshId(used) ==
    CHOOSE i \in 1..(Cardinality(used) + 1) :
        i \notin used /\ \A j \in 1..(i - 1) : j \in used

\* The heap after the garbage collector dropped the structs no pointer of
\* roots leads to, and the arrays no slice of a remaining struct leads to.
Collect(ss, arrs, roots) ==
    [s |-> [i \in (roots \cap DOMAIN ss) |-> ss[i]],
     a |-> [k \in ({ss[i].AllowedMounts.arr : i \in (roots \cap DOMAIN ss)}
                   \cap DOMAIN arrs) |-> arrs[k]]]

\* The pointers the program holds: _config and the struct of each goroutine
\* (0 is the nil pointer).
Roots(cfg, pr) == {cfg} \cup {pr[p].held : p \in Procs}

\* A goroutine that is in no call and holds no Configuration.  op tells how
\* its last step wrote to a Configuration through a pointer: "Update" in a
\* callback of Update, "Modify" outside the package, "" when the step was
\* something else.
\* ret holds what the last UseOpenat2 call of the goroutine returned (it is
\* empty before the first), v is the value such a call is about to store,
\* and seen holds what UseOpenat2 calls had returned when the present call
\* of the goroutine began (kept to tell the later calls from the
\* concurrent ones; the program has no such record).
NoProc == [op |-> "", pc |-> "idle", held |-> 0, b |-> <<>>, err |-> "",
           v |-> FALSE, ret |-> {}, seen |-> {}]

\* What a caller does to the Configuration c it has a pointer to.
SetToken(t) == [op |-> "Token", i |-> 0, v |-> t]
SetDebug(d) == [op |-> "Debug", i |-> 0, v |-> d]
SetMount(i, m) == [op |-> "Elem", i |-> i, v |-> m]
NewMounts(m) == [op |-> "Slice", i |-> 0, v |-> m]
SetOpenatMode(v) == [op |-> "Openat", i |-> 0, v |-> v]

\* c.Token.Token = t, c.Debug = d, c.AllowedMounts[0] = m and
\* c.AllowedMounts = []string{m}.
Mutations ==
    {SetToken(t) : t \in Tokens} \cup {SetDebug(d) : d \in BOOLEAN}
    \cup {SetMount(1, m) : m \in Mounts} \cup {NewMounts(m) : m \in Mounts}

\* The index of c.AllowedMounts[i] = v is in range.
CanApply(m, st) == m.op = "Elem" => m.i <= st.AllowedMounts.len

\* The heap after the statement m on the struct id: an element is written
\* to the backing array, a slice literal makes a new array.
Apply(m, ss, arrs, id, new) ==
    CASE m.op = "Token" -> [s |-> [ss EXCEPT ![id].Token = m.v], a |-> arrs]
      [] m.op = "Debug" -> [s |-> [ss EXCEPT ![id].Debug = m.v], a |-> arrs]
      [] m.op = "Openat" -> [s |-> [ss EXCEPT ![id].OpenatMode = m.v], a |-> arrs]
      [] m.op = "Elem" ->
            [s |-> ss,
             a |-> [arrs EXCEPT ![ss[id].AllowedMounts.arr][m.i] = m.v]]
      [] m.op = "Slice" ->
            [s |-> [ss EXCEPT ![id].AllowedMounts = [arr |-> new, len |-> 1]],
             a |-> arrs @@ (new :> <<m.v>>)]

\* The state after the program is configured: one Configuration, read from
\* the file, is stored.
ConfigLoaded ==
    /\ structs = (1 :> [Token |-> "t1", path |-> ConfigPath, Debug |-> FALSE,
                        AuthenticationToken |-> "t1", OpenatMode |-> "auto",
                        AllowedMounts |-> [arr |-> 1, len |-> 1]])
    /\ arrays = (1 :> <<"m1">>)
    /\ _config = 1
    /\ _jwtAlgo = NewHS256("t1")
    /\ _debugViaFlag = FALSE
    /\ _writeLock = 0
    /\ proc = [p \in Procs |-> NoProc]
    /\ file = <<>>
    /\ openat2 = FALSE
    /\ openat2Set = FALSE

\* The configured program on a kernel that has openat2.
ConfigBoot == ConfigLoaded /\ openat2Supported = TRUE

\* The heap becomes h, less what is garbage given the pointers cfg and pr.
HeapBecomes(h, cfg, pr) ==
    /\ structs' = Collect(h.s, h.a, Roots(cfg, pr)).s
    /\ arrays' = Collect(h.s, h.a, Roots(cfg, pr)).a

\* The heap ss with the new struct st under the number id: a number whose
\* struct was dropped names the new struct.
Allocated(ss, id, st) == (id :> st) @@ ss

\* c, _ := NewAtPath(path); c.AuthenticationToken = token, by goroutine p:
\* p holds the new struct in place of what it held.
NewConfig(p, path, token) ==
    /\ proc[p].pc = "idle"
    /\ LET id == FreshId(Roots(_config, [proc EXCEPT ![p].held = 0]))
           pr == [proc EXCEPT ![p].held = id, ![p].op = ""]
       IN  /\ proc' = pr
           /\ HeapBecomes([s |-> Allocated(structs, id,
                                [NewAtPath(path) EXCEPT !.AuthenticationToken = token]),
                           a |-> arrays], _config, pr)
    /\ UNCHANGED <<_config, _jwtAlgo, _debugViaFlag, _writeLock, file>>
    /\ UNCHANGED fsvars /\ UNCHANGED atomics

\* The token Set stores in c.Token.Token and makes the key of.
SetTokenOf(st) == IF st.Token = "" THEN st.AuthenticationToken ELSE st.Token

\* _jwtAlgo after Set(c): a new instance when no configuration is stored or
\* the stored token differs from the token of c.
SetJwtAlgo(algo, cfg, ss, token) ==
    IF cfg = 0 \/ ss[cfg].Token # token THEN NewHS256(token) ELSE algo

\* Set(c), c the struct goroutine p holds, under mu.Lock.
Set(p) ==
    /\ proc[p].pc = "idle"
    /\ proc[p].held # 0
    /\ LET c == proc[p].held
           token == SetTokenOf(structs[c])
           ss == [structs EXCEPT ![c].Token = token]
       IN  /\ _jwtAlgo' = SetJwtAlgo(_jwtAlgo, _config, ss, token)
           /\ _config' = c
           /\ HeapBecomes([s |-> ss, a |-> arrays], c, proc)
    /\ proc' = [proc EXCEPT ![p].op = ""]
    /\ UNCHANGED <<_debugViaFlag, _writeLock, file>>
    /\ UNCHANGED fsvars /\ UNCHANGED atomics

\* SetDebugViaFlag(d), under mu.Lock.
SetDebugViaFlag(p, d) ==
    /\ proc[p].pc = "idle"
    /\ structs' = [structs EXCEPT ![_config].Debug = d]
    /\ _debugViaFlag' = d
    /\ proc' = [proc EXCEPT ![p].op = ""]
    /\ UNCHANGED <<arrays, _config, _jwtAlgo, _writeLock, file>>
    /\ UNCHANGED fsvars /\ UNCHANGED atomics

\* c := *_config: the fields are copied, a slice with them, its backing
\* array is not.
Copy(st) == st

\* Get(), under mu.RLock: goroutine p holds a pointer to the new copy, in
\* place of what it held.
Get(p) ==
    /\ proc[p].pc = "idle"
    /\ LET id == FreshId(Roots(_config, [proc EXCEPT ![p].held = 0]))
           pr == [proc EXCEPT ![p].held = id, ![p].op = ""]
       IN  /\ proc' = pr
           /\ HeapBecomes([s |-> Allocated(structs, id, Copy(structs[_config])),
                           a |-> arrays], _config, pr)
    /\ UNCHANGED <<_config, _jwtAlgo, _debugViaFlag, _writeLock, file>>
    /\ UNCHANGED fsvars /\ UNCHANGED atomics

\* GetJwtAlgorithm(), under mu.RLock: the in-memory algorithm.
GetJwtAlgorithm == _jwtAlgo

\* Update(callback), under mu.Lock: the callback does m to *_config.
Update(p, m) ==
    /\ proc[p].pc = "idle"
    /\ CanApply(m, structs[_config])
    /\ HeapBecomes(Apply(m, structs, arrays, _config, FreshId(DOMAIN arrays)), _config, proc)
    /\ proc' = [proc EXCEPT ![p].op = "Update"]
    /\ UNCHANGED <<_config, _jwtAlgo, _debugViaFlag, _writeLock, file>>
    /\ UNCHANGED fsvars /\ UNCHANGED atomics

\* Goroutine p does m to the Configuration it holds, outside every lock.
Modify(p, m) ==
    /\ proc[p].pc = "idle"
    /\ proc[p].held # 0
    /\ CanApply(m, structs[proc[p].held])
    /\ HeapBecomes(Apply(m, structs, arrays, proc[p].held, FreshId(DOMAIN arrays)), _config, proc)
    /\ proc' = [proc EXCEPT ![p].op = "Modify"]
    /\ UNCHANGED <<_config, _jwtAlgo, _debugViaFlag, _writeLock, file>>
    /\ UNCHANGED fsvars /\ UNCHANGED atomics

(***************************************************************************)
(* config.UseOpenat2                                                       *)
(***************************************************************************)

\* The values of system.openat_mode.
OpenatModes == {"auto", "openat", "openat2"}

\* The switch on openatMode: the configured mode, or for every other value
\* whether unix.Openat2 succeeds on "/".
Decision(mode, supported) ==
    CASE mode = "openat2" -> TRUE
      [] mode = "openat" -> FALSE
      [] OTHER -> supported

\* What the UseOpenat2 calls that have returned did return.
ReturnedSoFar == UNION {proc[p].ret : p \in Procs}

\* UseOpenat2() is called by goroutine p: openat2Set.Load().
UseOpenat2Call(p) ==
    /\ proc[p].pc = "idle"
    /\ proc' = [proc EXCEPT ![p].op = "", ![p].seen = ReturnedSoFar,
                            ![p].pc = IF openat2Set THEN "load" ELSE "get"]
    /\ UNCHANGED <<structs, arrays, _config, _jwtAlgo, _debugViaFlag, _writeLock, file>>
    /\ UNCHANGED fsvars /\ UNCHANGED atomics

\* return openat2.Load().
UseOpenat2Load(p) ==
    /\ proc[p].pc = "load"
    /\ proc' = [proc EXCEPT ![p].ret = {openat2}, ![p].pc = "idle"]
    /\ UNCHANGED <<structs, arrays, _config, _jwtAlgo, _debugViaFlag, _writeLock, file>>
    /\ UNCHANGED fsvars /\ UNCHANGED atomics

\* c := Get() and the switch on c.System.OpenatMode, with the call of
\* unix.Openat2 in its default case.
UseOpenat2Get(p) ==
    /\ proc[p].pc = "get"
    /\ proc' = [proc EXCEPT ![p].v = Decision(Copy(structs[_config]).OpenatMode,
                                              openat2Supported),
                            ![p].pc = "store"]
    /\ UNCHANGED <<structs, arrays, _config, _jwtAlgo, _debugViaFlag, _writeLock, file>>
    /\ UNCHANGED fsvars /\ UNCHANGED atomics

\* openat2.Store(v).
UseOpenat2Store(p) ==
    /\ proc[p].pc = "store"
    /\ openat2' = proc[p].v
    /\ proc' = [proc EXCEPT ![p].pc = "deferred"]
    /\ UNCHANGED <<structs, arrays, _config, _jwtAlgo, _debugViaFlag, _writeLock, file>>
    /\ UNCHANGED <<openat2Set, openat2Supported>>
    /\ UNCHANGED fsvars

\* return v: the deferred openat2Set.Store(true) runs and the call returns.
UseOpenat2Return(p) ==
    /\ proc[p].pc = "deferred"
    /\ openat2Set' = TRUE
    /\ proc' = [proc EXCEPT ![p].ret = {proc[p].v}, ![p].pc = "idle"]
    /\ UNCHANGED <<structs, arrays, _config, _jwtAlgo, _debugViaFlag, _writeLock, file>>
    /\ UNCHANGED <<openat2, openat2Supported>>
    /\ UNCHANGED fsvars

(***************************************************************************)
(* config.WriteToDisk                                                      *)
(***************************************************************************)

\* WriteToDisk_Lock that takes the lock whoever holds it.
LockFree_Always(lock) == lock >= 0

\* _writeLock is not held.
LockFree(lock) == lock = 0

\* DiskCopy that writes Debug as it stands.
DiskCopy_AsIs(st, viaFlag) == st

\* ccopy := *c, with Debug cleared when debug mode came from the flag.
DiskCopy(st, viaFlag) == IF viaFlag THEN [st EXCEPT !.Debug = FALSE] ELSE st

\* yaml.Marshal(&ccopy): Token and path are not written (yaml:"-" and an
\* unexported field).
Marshal(st, arrs) ==
    [debug |-> st.Debug, token |-> st.AuthenticationToken,
     openat_mode |-> st.OpenatMode,
     allowed_mounts |-> Elems(arrs, st.AllowedMounts)]

\* WriteToDisk(c) is called by goroutine p with the Configuration it holds.
WriteToDiskCall(p) ==
    /\ proc[p].pc = "idle"
    /\ proc[p].held # 0
    /\ proc' = [proc EXCEPT ![p].op = "", ![p].pc = "lock"]
    /\ UNCHANGED <<structs, arrays, _config, _jwtAlgo, _debugViaFlag, _writeLock, file>>
    /\ UNCHANGED fsvars /\ UNCHANGED atomics

\* _writeLock.Lock() returns.
WriteToDiskLock(p) ==
    /\ proc[p].pc = "lock"
    /\ LockFree(_writeLock)
    /\ _writeLock' = p
    /\ proc' = [proc EXCEPT ![p].pc = "marshal"]
    /\ UNCHANGED <<structs, arrays, _config, _jwtAlgo, _debugViaFlag, file>>
    /\ UNCHANGED fsvars /\ UNCHANGED atomics

\* What yaml.Marshal(&ccopy) returns beside the bytes: nil or an error.
MarshalErrors == {"", "marshal failed"}

\* os.WriteFile(name, data, perm) is OpenFile(name, O_WRONLY|O_CREATE|
\* O_TRUNC, perm), f.Write(data) and f.Close(); each returns nil or an error.
OpenErrors == {"", "open failed"}

WriteErrors == {"", "write failed"}

CloseErrors == {"", "close failed"}

\* The content of a file that was opened with O_TRUNC and is not written in
\* full: empty, or the beginning of the data.
Cut == [cut |-> TRUE]

\* The error os.WriteFile returns when f.Write returned err and f.Close
\* returned err1: that of Close when Write had none.
WriteFileError(err, err1) == IF err1 # "" /\ err = "" THEN err1 ELSE err

\* The copy, the check of c.path and yaml.Marshal: without a path the call
\* returns an error before it marshals; an error of yaml.Marshal is
\* returned; otherwise the call goes on to write the bytes.
WriteToDiskMarshal(p) ==
    /\ proc[p].pc = "marshal"
    /\ \E e \in MarshalErrors :
         LET c == structs[proc[p].held]
         IN  proc' = IF c.path = ""
                     THEN [proc EXCEPT ![p].pc = "unlock", ![p].err = "no path"]
                     ELSE IF e # ""
                     THEN [proc EXCEPT ![p].pc = "unlock", ![p].err = e]
                     ELSE [proc EXCEPT ![p].pc = "open",
                                       ![p].b = Marshal(DiskCopy(c, _debugViaFlag), arrays)]
    /\ UNCHANGED <<structs, arrays, _config, _jwtAlgo, _debugViaFlag, _writeLock, file>>
    /\ UNCHANGED fsvars /\ UNCHANGED atomics

\* os.WriteFile(c.path, b, 0o600), OpenFile: an error is returned with the
\* file as it was; otherwise the file exists and is empty.
WriteToDiskOpen(p) ==
    /\ proc[p].pc = "open"
    /\ \E e \in OpenErrors :
         IF e # ""
         THEN /\ file' = file
              /\ proc' = [proc EXCEPT ![p].pc = "unlock", ![p].err = e]
         ELSE /\ file' = (structs[proc[p].held].path :> Cut) @@ file
              /\ proc' = [proc EXCEPT ![p].pc = "write"]
    /\ UNCHANGED <<structs, arrays, _config, _jwtAlgo, _debugViaFlag, _writeLock>>
    /\ UNCHANGED fsvars /\ UNCHANGED atomics

\* os.WriteFile, f.Write(data): the file holds the bytes, or the write
\* fails and the file is left cut.
WriteToDiskWrite(p) ==
    /\ proc[p].pc = "write"
    /\ \E e \in WriteErrors :
         /\ file' = IF e # "" THEN file
                    ELSE (structs[proc[p].held].path :> proc[p].b) @@ file
         /\ proc' = [proc EXCEPT ![p].pc = "close", ![p].err = e]
    /\ UNCHANGED <<structs, arrays, _config, _jwtAlgo, _debugViaFlag, _writeLock>>
    /\ UNCHANGED fsvars /\ UNCHANGED atomics

\* os.WriteFile, f.Close(): its error is returned when the write had none;
\* WriteToDisk returns what os.WriteFile returned.
WriteToDiskClose(p) ==
    /\ proc[p].pc = "close"
    /\ \E e1 \in CloseErrors :
         proc' = [proc EXCEPT ![p].pc = "unlock",
                              ![p].err = WriteFileError(proc[p].err, e1)]
    /\ UNCHANGED <<structs, arrays, _config, _jwtAlgo, _debugViaFlag, _writeLock, file>>
    /\ UNCHANGED fsvars /\ UNCHANGED atomics

\* The deferred _writeLock.Unlock() and the return: the caller takes the
\* error and goes on with the Configuration it holds.
WriteToDiskUnlock(p) ==
    /\ proc[p].pc = "unlock"
    /\ _writeLock' = 0
    /\ proc' = [proc EXCEPT ![p] = [NoProc EXCEPT !.held = proc[p].held,
                                                  !.ret = proc[p].ret]]
    /\ UNCHANGED <<structs, arrays, _config, _jwtAlgo, _debugViaFlag, file>>
    /\ UNCHANGED fsvars /\ UNCHANGED atomics

(***************************************************************************)
(* specifications                                                          *)
(***************************************************************************)

Quiet ==
    /\ fs = Filesystem(Root, Uuid)
    /\ now = 0
    /\ call = [c \in Callers |-> Idle]
    /\ frames = <<>>
    /\ ConfigBoot

\* A step of the DirectorySize call of frame f, or of its goroutine.
StepOf(f) ==
    \/ Resolve(f)
    \/ Spawn(f)
    \/ ReadSize(f)
    \/ AddFile(f)
    \/ Wait(f)
    \/ SubRead(f)
    \/ SubWrite(f)

\* A step of some call or goroutine of a walk.
WalkStep == \E f \in DOMAIN frames : StepOf(f)

\* A step of a call or goroutine nested at most MaxDepth deep: the deeper
\* goroutines have been started and have not run yet.
WalkStepFollowed == \E f \in DOMAIN frames : Len(f) <= MaxDepth /\ StepOf(f)

\* SafePath on every generated disk.
InitPath ==
    /\ disk \in PathDisks
    /\ quota = 0
    /\ cache = NoEntry
    /\ Quiet

NextPath ==
    \/ \E p \in Requests : SafePathCall(1, p)
    \/ Forget(1)

SpecPath == InitPath /\ [][NextPath]_vars

\* DirectorySize walks, one top-level call at a time.
InitWalk ==
    /\ disk \in WalkDisks
    /\ quota = 0
    /\ cache = NoEntry
    /\ Quiet

NextWalk ==
    \/ \E dir \in WalkDirs : DirectorySizeCall(1, dir)
    \/ WalkStepFollowed
    \/ DirectorySizeReturn(1)
    \/ Forget(1)

SpecWalk == InitWalk /\ [][NextWalk]_vars

\* Concurrent HasSpaceAvailable calls as time passes.
InitQuota ==
    /\ disk \in QuotaDisks
    /\ quota \in Quotas
    /\ cache \in InitCaches
    /\ Quiet

NextQuota ==
    \/ \E c \in Callers :
         \/ HSAUnlimited(c)
         \/ HSAHit(c)
         \/ HSAMiss(c)
         \/ HSAWalked(c)
         \/ HSAWalkFailed(c)
         \/ Forget(c)
    \/ WalkStep
    \/ Tick

SpecQuota == InitQuota /\ [][NextQuota]_vars

\* Every operation, on the disks of the quota checks.
Init ==
    /\ disk \in {DiskMid, DiskLocked}
    /\ quota \in {0, 1}
    /\ cache = NoEntry
    /\ Quiet

Next ==
    \/ \E c \in Callers :
         \/ \E p \in {"/", "d", "../srv-10/x"} : SafePathCall(c, p)
         \/ \E dir \in {"/", "d"} : DirectorySizeCall(c, dir)
         \/ DirectorySizeReturn(c)
         \/ HSAUnlimited(c)
         \/ HSAHit(c)
         \/ HSAMiss(c)
         \/ HSAWalked(c)
         \/ HSAWalkFailed(c)
         \/ Forget(c)
    \/ WalkStep
    \/ Tick

Spec == Init /\ [][Next]_vars

\* The base directories and server identifiers a Filesystem is built with:
\* identifiers as the panel hands them out, and strings that are no
\* identifiers (empty, dots, with a separator).
BaseDirs == {"/data", "/data/", "/srv/daemon-data", "/"}

Identifiers ==
    {"srv-1", "srv-10", "a", "a.b", ".x", "x..", "...",
     "", ".", "..", "a/b", "../x", "/etc"}

\* The Filesystem the disks are laid out for.
Standard == fs = Filesystem(Root, Uuid)

\* Path() on every Filesystem; the three operations on the one the disks
\* are laid out for.
InitRoot ==
    /\ fs \in {Filesystem(r, u) : r \in BaseDirs, u \in Identifiers}
    /\ disk = DiskMid
    /\ quota = 1
    /\ cache = NoEntry
    /\ now = 0
    /\ call = [c \in Callers |-> Idle]
    /\ frames = <<>>
    /\ ConfigBoot

NextRoot ==
    \/ PathCall(1)
    \/ Forget(1)
    \/ Standard /\ \E p \in {"d", "../srv-10/x"} : SafePathCall(1, p)
    \/ Standard /\ DirectorySizeCall(1, "/")
    \/ Standard /\ DirectorySizeReturn(1)
    \/ Standard /\ HSAMiss(1)
    \/ Standard /\ HSAHit(1)
    \/ Standard /\ HSAWalked(1)
    \/ Standard /\ WalkStep

SpecRoot == InitRoot /\ [][NextRoot]_vars

\* The three operations, one call at a time, while files come and go and
\* time passes.
InitChanging ==
    /\ disk = DiskMid
    /\ quota = 1
    /\ cache = NoEntry
    /\ Quiet

NextChanging ==
    \/ HSAHit(1)
    \/ HSAMiss(1)
    \/ HSAWalked(1)
    \/ \E p \in {"g", "../srv-10/x"} : SafePathCall(1, p)
    \/ DirectorySizeCall(1, "/")
    \/ DirectorySizeReturn(1)
    \/ Forget(1)
    \/ WalkStep
    \/ Tick
    \/ FileAdded
    \/ FileRemoved

SpecChanging == InitChanging /\ [][NextChanging]_vars

(***************************************************************************)
(* SafePath: confinement (checked under SpecPath)                          *)
(***************************************************************************)

\* t is the confined root or a descendant of it, compared by path segments.
Inside(t) == t = Path \/ HasPrefix(t, Path \o "/")

\* The sibling server directory whose name extends the root's name.
Sibling == Path \o "0"

\* t is the sibling directory or below it.
UnderSibling(t) == t = Sibling \/ HasPrefix(t, Sibling \o "/")

RECURSIVE Lands(_, _, _, _)
\* Where an access through a path ends up on disk d: every symbolic link is
\* followed, that of a last component too; components that do not exist are
\* kept as they are.  "" when the access fails for another reason than a
\* missing component.
Lands(d, dest, comps, links) ==
    IF Len(comps) = 0 THEN Clean(dest)
    ELSE LET c == Head(comps)
             rest == Tail(comps)
             nd == AddComp(dest, c)
         IN  IF c = "" \/ c = "." THEN Lands(d, dest, rest, links)
             ELSE IF c = ".." THEN Lands(d, Dir(dest), rest, links)
             ELSE IF DeniedAbove(d, nd) THEN ""
             ELSE IF nd \notin DOMAIN d THEN Clean(JoinSep(<<nd>> \o rest))
             ELSE IF d[nd].kind = "link"
                  THEN IF links >= MaxLinks THEN ""
                       ELSE Lands(d, IF IsRooted(d[nd].target) THEN "/" ELSE dest,
                                  Relinked(d[nd].target, rest), links + 1)
             ELSE IF d[nd].kind = "file" /\ Len(rest) > 0 THEN ""
             ELSE Lands(d, nd, rest, links)

Location(d, path) == Lands(d, "/", Split(path), 0)

\* Caller c holds the result of a SafePath call.
SafePathDone(c) == call[c].op = "SafePath" /\ call[c].pc = "done"

Rejected(c) == call[c].err = "InvalidPathResolution" /\ call[c].path = ""

\* C1: whenever the candidate of a request resolves, through every symbolic
\* link, to a location that is neither the confined root nor a descendant of
\* it, SafePath returns InvalidPathResolution and no path.
C1_EscapeRejected ==
    \A c \in Callers :
        SafePathDone(c) =>
            LET e == EvalSymlinks(disk, Candidate(call[c].arg))
            IN  (e.err = "" /\ ~Inside(e.path)) => Rejected(c)

\* C2: a request that leads to the sibling directory /data/srv-10 or below
\* it, to an existing target or to a missing leaf, returns
\* InvalidPathResolution: containment is decided by segments, not by prefix.
C2_SiblingRejected ==
    \A c \in Callers :
        SafePathDone(c) =>
            (UnderSibling(Location(disk, Candidate(call[c].arg))) => Rejected(c))

\* C3: every path SafePath returns without error leads, following the
\* symbolic links of all its components (a dangling last one included), to a
\* location inside the confined root.
C3_ReturnedInside ==
    \A c \in Callers :
        (SafePathDone(c) /\ call[c].err = "") =>
            Inside(Location(disk, call[c].path))

\* The candidate does not exist: a component is missing, or a file stands
\* where a directory is needed.
Missing(e) == e.err \in {"ENOENT", "ENOTDIR"}

RECURSIVE DeepestExisting(_, _)
\* The resolution of the deepest ancestor of a path that exists, starting
\* with q; "" when none does.
DeepestExisting(d, q) ==
    LET t == EvalSymlinks(d, q)
    IN  IF t.err = "" THEN t.path
        ELSE IF q = "/" THEN ""
        ELSE DeepestExisting(d, Dir(q))

Returned(c, r) == call[c].err = "" /\ call[c].path = r

\* C4 as stated: whenever the candidate R does not exist and its deepest
\* existing ancestor resolves inside the confined root, SafePath returns R.
C4_MissingLeafReturned ==
    \A c \in Callers :
        SafePathDone(c) =>
            LET r == Candidate(call[c].arg)
            IN  (/\ Missing(EvalSymlinks(disk, r))
                 /\ Inside(DeepestExisting(disk, Dir(r))))
                => Returned(c, r)

\* C4 amended: whenever the candidate R lies below the confined root, its
\* resolution reports that it does not exist, and its deepest existing
\* ancestor resolves inside the confined root, SafePath returns exactly R.
C4_MissingLeafBelowRoot ==
    \A c \in Callers :
        SafePathDone(c) =>
            LET r == Candidate(call[c].arg)
            IN  (/\ Inside(r)
                 /\ IsNotExist(EvalSymlinks(disk, r).err)
                 /\ Inside(DeepestExisting(disk, Dir(r))))
                => Returned(c, r)

\* C4 witness: two trailing components are missing below a symbolic link
\* that resolves inside the root, and the unresolved candidate is returned.
C4_Witness ==
    \E c \in Callers :
        /\ SafePathDone(c)
        /\ call[c].arg = "l/g/h"
        /\ IsNotExist(EvalSymlinks(disk, Candidate(call[c].arg)).err)
        /\ DeepestExisting(disk, "/data/srv-1/l/g") = "/data/srv-1/a"
        /\ Returned(c, "/data/srv-1/l/g/h")

(***************************************************************************)
(* DirectorySize (checked under SpecWalk)                                  *)
(***************************************************************************)

\* q lies strictly below the directory dir.
Below(q, dir) ==
    q # dir /\ HasPrefix(q, IF dir = "/" THEN "/" ELSE dir \o "/")

RECURSIVE SumSizes(_, _)
\* The sum of the sizes of the nodes of d named in the set qs.
SumSizes(d, qs) ==
    IF qs = {} THEN 0
    ELSE LET q == CHOOSE x \in qs : TRUE
         IN  d[q].size + SumSizes(d, qs \ {q})

\* The files (everything that is no directory) at every depth below dir.
FilesBelow(d, dir) == {q \in DOMAIN d : Below(q, dir) /\ d[q].kind # "dir"}

\* The sum of the sizes of all files at every nesting depth below dir.
TreeSize(d, dir) == SumSizes(d, FilesBelow(d, dir))

\* No directory at or below dir refuses to be listed.
Readable(d, dir) ==
    \A q \in DOMAIN d : (q = dir \/ Below(q, dir)) => ~d[q].denied

\* The files below dir that are not below a directory that cannot be listed.
FilesReached(d, dir) ==
    {q \in FilesBelow(d, dir) :
        \A u \in DOMAIN d : (Below(u, dir) /\ Below(q, u)) => ~d[u].denied}

\* Caller c holds the result of a DirectorySize call.
DirectorySizeDone(c) == call[c].op = "DirectorySize" /\ call[c].pc = "done"

\* C5: on a fully readable tree inside the confined root, DirectorySize(dir)
\* returns the sum of the sizes of all files at every depth below dir.
C5_SumOfAllFiles ==
    \A c \in Callers :
        DirectorySizeDone(c) =>
            LET e == EvalSymlinks(disk, Candidate(call[c].arg))
            IN  (/\ e.err = ""
                 /\ Inside(e.path)
                 /\ disk[e.path].kind = "dir"
                 /\ Readable(disk, e.path))
                => (call[c].err = "" /\ call[c].n = TreeSize(disk, e.path))

RECURSIVE SumEntries(_)
\* The sum of the sizes of the entries of a listing that are no directories.
SumEntries(files) ==
    IF Len(files) = 0 THEN 0
    ELSE (IF Head(files).isdir THEN 0 ELSE Head(files).size)
         + SumEntries(Tail(files))

RECURSIVE SumSubtotals(_)
\* The sum of the subtotals the frames in ks returned.
SumSubtotals(ks) ==
    IF ks = {} THEN 0
    ELSE LET f == CHOOSE x \in ks : TRUE
         IN  frames[f].n + SumSubtotals(ks \ {f})

\* The frames of the goroutines that frame f started.
Kids(f) == {k \in DOMAIN frames : IsChild(k) /\ Parent(k) = f}

\* The frame has returned from DirectorySize without error.
ReturnedOK(f) == frames[f].pc \in {"ret", "sum", "done"} /\ frames[f].err = ""

\* C6: no addition to the running total is lost: in every interleaving a
\* call returns the sizes of the files it listed plus the subtotals its
\* subtasks returned.
C6_NoLostAddition ==
    \A f \in DOMAIN frames :
        ReturnedOK(f) =>
            frames[f].n = SumEntries(ReadDir(disk, frames[f].cleaned).files)
                          + SumSubtotals(Kids(f))

\* C7: DirectorySize returns an error exactly when resolving or listing the
\* directory it was called on fails; a subdirectory that cannot be listed
\* contributes 0 and everything else is counted.
C7_OnlyTopLevelError ==
    \A c \in Callers :
        DirectorySizeDone(c) =>
            LET sp == SafePath(disk, call[c].arg)
                rd == ReadDir(disk, sp.path)
                top == EvalSymlinks(disk, sp.path).path
            IN  /\ (call[c].err # "") <=> (sp.err # "" \/ rd.err # "")
                /\ (call[c].err = "" /\ Inside(top)) =>
                       call[c].n = SumSizes(disk, FilesReached(disk, top))

(***************************************************************************)
(* HasSpaceAvailable (checked under SpecQuota)                             *)
(***************************************************************************)

\* Bytes in a MiB.
MiB == 1048576

\* Caller c holds the result of a HasSpaceAvailable call.
HSADone(c) == call[c].op = "HasSpaceAvailable" /\ call[c].pc = "done"

\* The call of c used the cached figure.
Hit(c) == call[c].looked /\ ~call[c].walked

\* The call of c walked the disk and the walk succeeded.
Fresh(c) == call[c].walked /\ call[c].err = ""

\* C8: with a quota above zero, HasSpaceAvailable returns true exactly when
\* the usage in whole MiB is at most the quota, the usage being the cached
\* figure on a hit and the figure of the walk on a miss whose walk succeeded.
C8_ComparesUsageWithQuota ==
    \A c \in Callers :
        (HSADone(c) /\ quota > 0) =>
            /\ Hit(c) => (call[c].ok <=> (call[c].size \div MiB) <= quota)
            /\ Fresh(c) => (call[c].ok <=> (call[c].n \div MiB) <= quota)

\* The step in which caller c enters HasSpaceAvailable.
HSAEnters(c) == call[c].pc = "idle" /\ call'[c].op = "HasSpaceAvailable"

\* C9: with a quota of zero or less, HasSpaceAvailable returns true at once,
\* whatever is cached or on the disk, without looking into the cache,
\* writing it or starting a walk.
C9_UnlimitedReturnsTrue ==
    [][\A c \in Callers :
          (quota <= 0 /\ HSAEnters(c)) =>
              /\ call'[c].pc = "done"
              /\ call'[c].ok
              /\ ~call'[c].looked
              /\ ~call'[c].walked
              /\ cache' = cache
              /\ frames' = frames]_vars

\* C9 witness: an unlimited server whose cache holds 4 MiB was answered true
\* without a lookup, on a disk that holds 3 MiB.
C9_Witness ==
    \E c \in Callers :
        /\ quota <= 0
        /\ HSADone(c)
        /\ call[c].ok
        /\ ~call[c].looked
        /\ cache.present /\ cache.value = 4194304
        /\ TreeSize(disk, Path) = 3145728

\* C10 as stated: with a quota above zero and a cached figure due to expire
\* at T0 + 5 minutes, a call before that time uses the figure and does not
\* walk, and a call after that time walks.
C10_CachedForFiveMinutes ==
    [][\A c \in Callers :
          (quota > 0 /\ HSAEnters(c) /\ cache.present) =>
              /\ now < cache.expiry =>
                     (~call'[c].walked /\ call'[c].size = cache.value)
              /\ now > cache.expiry => call'[c].walked]_vars

\* C10 amended: a call before the expiry of a cached figure other than 0
\* uses the figure and does not walk (a cached figure of 0 is walked again),
\* and a call after the expiry walks.
C10_NonZeroCachedForFiveMinutes ==
    [][\A c \in Callers :
          (quota > 0 /\ HSAEnters(c) /\ cache.present) =>
              /\ (now < cache.expiry /\ cache.value # 0) =>
                     (~call'[c].walked /\ call'[c].size = cache.value)
              /\ now > cache.expiry => call'[c].walked]_vars

\* C10 witness: the 3 MiB a walk cached served one call within the five
\* minutes, and after them another call is walking again.
C10_Witness ==
    \E c, w \in Callers :
        /\ quota > 0
        /\ cache.present /\ cache.value = 3145728
        /\ HSADone(c) /\ Hit(c) /\ call[c].size = 3145728
        /\ now > cache.expiry
        /\ call[w].op = "HasSpaceAvailable" /\ call[w].pc = "walk"

\* The step in which the walk of caller c's HasSpaceAvailable call comes back
\* with an error.
HSAWalkFails(c) ==
    /\ call[c].op = "HasSpaceAvailable"
    /\ call[c].pc = "walk"
    /\ call'[c].pc = "done"
    /\ frames[Top(c)].err # ""

\* Caller c holds the result of a HasSpaceAvailable call whose walk failed.
FailedWalk(c) == HSADone(c) /\ call[c].walked /\ call[c].err # ""

\* C11: with a quota above zero, a HasSpaceAvailable call whose walk fails
\* returns true and leaves the cache as it was, and a call made after it
\* walks again.
C11_FailedWalkReturnsTrue ==
    [][\A c \in Callers :
          /\ (quota > 0 /\ HSAWalkFails(c)) =>
                 (call'[c].ok /\ cache' = cache)
          /\ (quota > 0 /\ HSAEnters(c) /\ \E w \in Callers \ {c} : FailedWalk(w)) =>
                 call'[c].walked]_vars

\* C11 witness: the root cannot be listed; one call came back true from its
\* failed walk, the cache holds no figure, and the next call is walking.
C11_Witness ==
    \E c, w \in Callers :
        /\ quota > 0
        /\ FailedWalk(w) /\ call[w].ok
        /\ ~CacheGet(cache, now).exists
        /\ call[c].op = "HasSpaceAvailable" /\ call[c].pc = "walk"

(***************************************************************************)
(* specifications of package config                                        *)
(***************************************************************************)

\* The filesystem of a server at rest, the configuration as booted.
InitConfig ==
    /\ disk = DiskEmpty
    /\ quota = 0
    /\ cache = NoEntry
    /\ Quiet

\* What the callers do to a Configuration under SpecConfig.
ConfigMutations ==
    {SetToken(t) : t \in Tokens} \cup {SetMount(1, "m2"), NewMounts("m2")}

\* A goroutine reads, replaces and updates the global configuration.
NextConfig ==
    \/ NewConfig(1, ConfigPath, "t2")
    \/ Set(1)
    \/ \E d \in BOOLEAN : SetDebugViaFlag(1, d)
    \/ Get(1)
    \/ \E m \in ConfigMutations : Update(1, m)
    \/ \E m \in ConfigMutations : Modify(1, m)

SpecConfig == InitConfig /\ [][NextConfig]_vars

\* What the callbacks of Update do under SpecJwt.
JwtMutations == {SetToken(t) : t \in Tokens} \cup {SetDebug(d) : d \in BOOLEAN}

\* A goroutine sets, updates and reads the global configuration through
\* the functions of the package alone; what it passes to Set is a new
\* Configuration or the copy Get returned.
NextJwt ==
    \/ NewConfig(1, ConfigPath, "t2")
    \/ Get(1)
    \/ Set(1)
    \/ \E m \in JwtMutations : Update(1, m)
    \/ \E d \in BOOLEAN : SetDebugViaFlag(1, d)

SpecJwt == InitConfig /\ [][NextJwt]_vars

\* The configured program on a kernel with or without openat2.
InitOpenat ==
    /\ fs = Filesystem(Root, Uuid)
    /\ disk = DiskEmpty
    /\ quota = 0
    /\ cache = NoEntry
    /\ now = 0
    /\ call = [c \in Callers |-> Idle]
    /\ frames = <<>>
    /\ ConfigLoaded
    /\ openat2Supported \in BOOLEAN

\* Goroutines ask UseOpenat2 and change system.openat_mode through Update.
NextOpenat ==
    \E p \in Procs :
        \/ UseOpenat2Call(p)
        \/ UseOpenat2Load(p)
        \/ UseOpenat2Get(p)
        \/ UseOpenat2Store(p)
        \/ UseOpenat2Return(p)
        \/ \E mode \in OpenatModes : Update(p, SetOpenatMode(mode))

SpecOpenat == InitOpenat /\ [][NextOpenat]_vars

\* Goroutines read the configuration, make a new one without a path, turn
\* the debug flag on and off, and write what they hold to the disk.
NextWrite ==
    \E p \in Procs :
        \/ Get(p)
        \/ NewConfig(p, "", "t2")
        \/ \E d \in BOOLEAN : SetDebugViaFlag(p, d)
        \/ WriteToDiskCall(p)
        \/ WriteToDiskLock(p)
        \/ WriteToDiskMarshal(p)
        \/ WriteToDiskOpen(p)
        \/ WriteToDiskWrite(p)
        \/ WriteToDiskClose(p)
        \/ WriteToDiskUnlock(p)

SpecWrite == InitConfig /\ [][NextWrite]_vars

\* A goroutine that runs keeps running, and sync.Mutex starves no waiter: a
\* goroutine that waits for _writeLock gets it when it is free again and
\* again.
FairWrite ==
    \A p \in Procs :
        /\ SF_vars(WriteToDiskLock(p))
        /\ WF_vars(WriteToDiskMarshal(p))
        /\ WF_vars(WriteToDiskOpen(p))
        /\ WF_vars(WriteToDiskWrite(p))
        /\ WF_vars(WriteToDiskClose(p))
        /\ WF_vars(WriteToDiskUnlock(p))

FairSpecWrite == SpecWrite /\ FairWrite

(***************************************************************************)
(* the global configuration (checked under SpecConfig)                     *)
(***************************************************************************)

\* What a Get would return now: the value of the stored configuration.
StoredValue == Value(structs[_config], arrays)

\* Goroutine p changes the Configuration a Get returned to it (a struct that
\* was not handed to Set since).
ThroughCopy(p) ==
    \E m \in Mutations : proc[p].held # _config /\ Modify(p, m)

\* Goroutine p changes the stored configuration through the package: Set,
\* Update, SetDebugViaFlag, or a pointer it handed to Set.
ThroughPackage(p) ==
    \/ Set(p)
    \/ \E d \in BOOLEAN : SetDebugViaFlag(p, d)
    \/ \E m \in Mutations : Update(p, m)
    \/ \E m \in Mutations : proc[p].held = _config /\ Modify(p, m)

\* C12: no change made through the struct a Get returned, to a field or to
\* an element of a slice field, shows in what a later Get returns; the
\* stored configuration changes only through the package.
C12_GetReturnsCopy ==
    [][/\ \A p \in Procs : ThroughCopy(p) => StoredValue' = StoredValue
       /\ StoredValue' # StoredValue => \E p \in Procs : ThroughPackage(p)]_vars

(***************************************************************************)
(* WriteToDisk (checked under FairSpecWrite)                               *)
(***************************************************************************)

\* Goroutine p waits in _writeLock.Lock().
Waiting(p) == proc[p].pc = "lock"

\* Goroutine p is between _writeLock.Lock() and _writeLock.Unlock().
InSection(p) ==
    proc[p].pc \in {"marshal", "open", "write", "close", "unlock"}

\* Goroutine p has written the configuration it holds to its path: at its
\* return the file holds the bytes it marshalled (os.WriteFile returned nil,
\* or the error of f.Close() after a complete write).
Wrote(p) ==
    /\ proc[p].pc = "unlock"
    /\ structs[proc[p].held].path \in DOMAIN file
    /\ file[structs[proc[p].held].path] = proc[p].b

\* The WriteToDisk call of goroutine p returns an error: c.path is empty,
\* or yaml.Marshal or os.WriteFile failed.
Failed(p) ==
    /\ proc[p].pc = "unlock"
    /\ proc[p].err # ""

\* The WriteToDisk call of goroutine p returns the error of the path check
\* exactly when the Configuration it was called with has no path.
PathChecked(p) ==
    (proc[p].err = "no path") <=> (structs[proc[p].held].path = "")

\* At most one WriteToDisk call at a time is between _writeLock.Lock() and
\* _writeLock.Unlock(), and that call holds the lock.
OneInSection ==
    /\ \A p, q \in Procs : (InSection(p) /\ InSection(q)) => p = q
    /\ \A p \in Procs : InSection(p) => _writeLock = p

\* C13 as stated: at most one WriteToDisk call at a time is between taking
\* and releasing the write lock, and every call that waits for the lock
\* eventually performs its own write: it comes to its return, and never
\* without having written.
C13_WriteToDiskExclusive ==
    /\ []OneInSection
    /\ [](\A p \in Procs : proc[p].pc = "unlock" => Wrote(p))
    /\ \A p \in Procs : Waiting(p) ~> Wrote(p)

\* C13, amended: at most one WriteToDisk call at a time is between taking
\* and releasing the write lock; every call that waits for the lock gets
\* it, and comes to its return either having written its own configuration
\* (the file at its path holds what it marshalled) or with an error, and
\* with nil only when it has written; the error is that of the path check
\* exactly for a Configuration without a path; and the lock is released.
C13_WriteToDiskSerialized ==
    /\ []OneInSection
    /\ [](\A p \in Procs :
              proc[p].pc = "unlock" => (Wrote(p) \/ Failed(p)) /\ PathChecked(p))
    /\ \A p \in Procs : Waiting(p) ~> InSection(p)
    /\ \A p \in Procs : Waiting(p) ~> (Wrote(p) \/ Failed(p))
    /\ \A p \in Procs : InSection(p) ~> (_writeLock # p)

\* C13 witness: one call has written its file and still holds the lock
\* while another, called with a Configuration without a path, waits for it.
C13_Witness ==
    \E p, q \in Procs :
        /\ Wrote(p)
        /\ proc[p].err = ""
        /\ _writeLock = p
        /\ Waiting(q)
        /\ structs[proc[q].held].path = ""

(***************************************************************************)
(* SafePath: what is returned (checked under SpecPath)                     *)
(***************************************************************************)

\* C14: when the candidate R exists and resolves to T inside the confined
\* root, SafePath returns T; a call that fails returns the empty string with
\* its error, and a call that succeeds returns T or R, no other path.
C14_ResolvedPathReturned ==
    \A c \in Callers :
        SafePathDone(c) =>
            LET r == Candidate(call[c].arg)
                e == EvalSymlinks(disk, r)
            IN  /\ (e.err = "" /\ Inside(e.path)) => Returned(c, e.path)
                /\ call[c].err # "" => call[c].path = ""
                /\ call[c].err = "" =>
                       (call[c].path # "" /\ call[c].path \in {e.path, r})

\* C14 witness: the candidate /data/srv-1/l is a symbolic link to the
\* directory a, and the call returned /data/srv-1/a.
C14_Witness ==
    \E c \in Callers :
        /\ SafePathDone(c)
        /\ call[c].arg = "l"
        /\ "/data/srv-1/l" \in DOMAIN disk
        /\ disk["/data/srv-1/l"].kind = "link"
        /\ EvalSymlinks(disk, "/data/srv-1/l") = [path |-> "/data/srv-1/a", err |-> ""]
        /\ Returned(c, "/data/srv-1/a")

\* An error of the resolution that does not say the path is missing (ENOENT).
OtherError(err) == err \notin {"", "ENOENT"}

\* C15: when resolving the candidate fails with an error other than
\* not-exist, SafePath returns that very error and the empty path: the error
\* is turned neither into InvalidPathResolution nor, through the ancestors,
\* into a success.
C15_OtherErrorReturned ==
    \A c \in Callers :
        SafePathDone(c) =>
            LET e == EvalSymlinks(disk, Candidate(call[c].arg))
            IN  OtherError(e.err) =>
                    (call[c].err = e.err /\ call[c].path = "")

\* C15 witness: the candidate lies below a directory without permission
\* (its parent exists inside the root), and the call returned EACCES.
C15_Witness ==
    \E c \in Callers :
        /\ SafePathDone(c)
        /\ call[c].arg = "a/b"
        /\ EvalSymlinks(disk, "/data/srv-1/a/b").err = "EACCES"
        /\ EvalSymlinks(disk, "/data/srv-1").err = ""
        /\ call[c].err = "EACCES"
        /\ call[c].path = ""

(***************************************************************************)
(* DirectorySize: goroutines (checked under SpecWalk)                      *)
(***************************************************************************)

\* Frame k belongs to a goroutine started, directly or through other
\* goroutines, by the call of frame f.
Descends(k, f) == Len(k) > Len(f) /\ SubSeq(k, 1, Len(f)) = f

\* The call of frame f has returned.
HasReturned(f) == frames[f].pc \in {"ret", "sum", "done"}

\* The goroutine of frame k has added its subtotal and called wg.Done().
Finished(k) == frames[k].pc = "done"

\* C16: when a DirectorySize call has returned, every goroutine it started,
\* and every goroutine those started, has finished: none is running and none
\* can still add to a total.
C16_ReturnsAfterSubtasks ==
    \A f \in DOMAIN frames :
        HasReturned(f) =>
            \A k \in DOMAIN frames : Descends(k, f) => Finished(k)

\* C16 witness: a top-level call has returned whose goroutine started a
\* goroutine of its own, and both have finished.
C16_Witness ==
    \E f, k, g \in DOMAIN frames :
        /\ Len(f) = 1 /\ HasReturned(f)
        /\ Len(k) = 2 /\ Descends(k, f) /\ Finished(k)
        /\ Len(g) = 3 /\ Descends(g, k) /\ Finished(g)

(***************************************************************************)
(* DirectorySize: termination (checked under SpecWalk)                     *)
(***************************************************************************)

\* The call of frame f runs inside the call of frame g with the argument g
\* was given, and lists the directory g lists.  What a call lists and which
\* goroutines it starts depends on its argument and the disk alone, and no
\* walk changes the disk: f starts the call that started it, and so does
\* every call after.
Repeats(f, g) ==
    /\ Descends(f, g)
    /\ frames[f].arg = frames[g].arg
    /\ frames[g].pc = "loop" /\ frames[f].pc = "loop"
    /\ frames[f].cleaned = frames[g].cleaned

\* C17: the recursion of a walk ends on every finite tree, symbolic links
\* or not, so that every DirectorySize call returns: no call comes to run
\* inside a call for the same argument that lists the same directory (on a
\* finite tree the calls nest without end exactly when one does).
C17_RecursionEnds ==
    \A f, g \in DOMAIN frames : ~Repeats(f, g)

\* C17 witness: a DirectorySize call runs inside a DirectorySize call with
\* the same argument, listing the same directory, and has itself started a
\* goroutine with that argument again.
C17_Witness ==
    \E f, g, k \in DOMAIN frames :
        /\ Repeats(f, g)
        /\ Parent(k) = f
        /\ frames[k].arg = frames[f].arg

(***************************************************************************)
(* DirectorySize: every call goes through SafePath (checked under SpecWalk)*)
(***************************************************************************)

\* The call of frame f is past fs.SafePath(dir) and ioutil.ReadDir(cleaned).
PastStart(f) == frames[f].pc # "start"

\* The call of frame f has listed a directory or started a goroutine.
HasListed(f) ==
    \/ frames[f].cleaned # ""
    \/ frames[f].files # <<>>
    \/ frames[f].kids > 0
    \/ \E k \in DOMAIN frames : Descends(k, f)

\* The call of frame f returns (0, err).
ReturnsError(f, err) ==
    /\ HasReturned(f)
    /\ frames[f].n = 0
    /\ frames[f].err = err

\* C18: at every level of the recursion, the directory a DirectorySize call
\* lists is the path SafePath returned without error for the argument of
\* that call; when SafePath fails for the argument, the call returns
\* (0, that error) and has listed nothing and started no goroutine.
C18_GatedThroughSafePath ==
    \A f \in DOMAIN frames :
        PastStart(f) =>
            LET sp == SafePath(disk, frames[f].arg)
            IN  IF sp.err # ""
                THEN ReturnsError(f, sp.err) /\ ~HasListed(f)
                ELSE HasListed(f) => frames[f].cleaned = sp.path

\* C18 witness: a top-level call is listing the directory SafePath returned
\* for its argument, and a goroutine it started, whose argument SafePath
\* refused, has returned (0, error) with nothing listed.
C18_Witness ==
    \E f, k \in DOMAIN frames :
        /\ Len(f) = 1 /\ frames[f].pc = "loop"
        /\ frames[f].cleaned = SafePath(disk, frames[f].arg).path
        /\ Descends(k, f)
        /\ SafePath(disk, frames[k].arg).err # ""
        /\ ReturnsError(k, SafePath(disk, frames[k].arg).err)
        /\ ~HasListed(k)

(***************************************************************************)
(* HasSpaceAvailable: what a successful walk stores (checked under         *)
(* SpecQuota)                                                              *)
(***************************************************************************)

\* Caller c, inside HasSpaceAvailable with a quota, takes the result of a
\* DirectorySize("/") that returned without error.
TakesWalkResult(c) ==
    /\ quota > 0
    /\ call[c].op = "HasSpaceAvailable"
    /\ call[c].pc = "walk"
    /\ call'[c].pc = "done"
    /\ Top(c) \in DOMAIN frames
    /\ frames[Top(c)].pc = "ret"
    /\ frames[Top(c)].err = ""

\* C19: when HasSpaceAvailable, with a quota and after a cache miss, gets s
\* from a successful DirectorySize("/"), it stores s under "disk_used" with
\* an expiry exactly 5 minutes after the write, and a Get at once afterwards
\* returns s as present.
C19_WalkResultStored ==
    [][\A c \in Callers :
         TakesWalkResult(c) =>
             /\ cache'.present
             /\ cache'.value = frames[Top(c)].n
             /\ cache'.expiry = now + 5
             /\ CacheGet(cache', now') = [exists |-> TRUE, value |-> frames[Top(c)].n]]_vars

\* C19 witness: a check that found nothing cached has walked 3 MiB and
\* returned, and the cache holds that figure until five minutes from now.
C19_Witness ==
    \E c \in Callers :
        /\ quota > 0
        /\ HSADone(c) /\ call[c].walked /\ call[c].err = ""
        /\ call[c].n = 3145728
        /\ cache = [present |-> TRUE, value |-> 3145728, expiry |-> now + 5]

(***************************************************************************)
(* what the operations change (checked under SpecChanging)                 *)
(***************************************************************************)

\* The frames of the walk caller c started.
WalkOf(all, c) == [f \in {g \in DOMAIN all : g[1] = c} |-> all[f]]

\* The step is a SafePath call of caller c.
SafePathStep(c) == Free(c) /\ call'[c].op = "SafePath"

\* The step belongs to a DirectorySize call of caller c: its start, a step
\* of the call or of one of its goroutines, or its return.
DirectorySizeStep(c) ==
    \/ Free(c) /\ call'[c].op = "DirectorySize"
    \/ /\ call[c].op = "DirectorySize" /\ call[c].pc = "walk"
       /\ \/ call'[c] # call[c]
          \/ WalkOf(frames', c) # WalkOf(frames, c)

\* The step is the end of the walk of a HasSpaceAvailable call.
HSATakesResult(c) ==
    /\ call[c].op = "HasSpaceAvailable"
    /\ call[c].pc = "walk"
    /\ call'[c].pc = "done"

\* A Get of "disk_used" at time t finds the entry e.
Found(e, t) == CacheGet(e, t).exists

\* C20: the "disk_used" entry is written by HasSpaceAvailable only and goes
\* only by expiry; SafePath and DirectorySize leave the cache as it is,
\* SafePath changes nothing but the result its caller gets, and the entry
\* stays as it is when a file is added or removed.
C20_OnlyQuotaCheckWrites ==
    [][/\ cache' # cache => \E c \in Callers : HSATakesResult(c)
       /\ cache.present => cache'.present
       /\ (Found(cache, now) /\ ~Found(cache', now')) =>
              (cache' = cache /\ now' > cache.expiry)
       /\ \A c \in Callers :
              SafePathStep(c) =>
                  /\ UNCHANGED <<disk, quota, cache, now, frames>>
                  /\ UNCHANGED cfgvars
                  /\ \A o \in Callers \ {c} : call'[o] = call[o]
       /\ \A c \in Callers :
              DirectorySizeStep(c) => UNCHANGED <<disk, quota, cache, now>>
       /\ disk' # disk => cache' = cache]_vars

\* C20 witness: the cache holds the 2 MiB a quota check found, not expired,
\* while a file of 1 MiB has been added since and a DirectorySize call has
\* returned the 3 MiB now on the disk.
C20_Witness ==
    /\ Found(cache, now) /\ cache.value = 2097152
    /\ NewFile \in DOMAIN disk
    /\ call[1].op = "DirectorySize" /\ call[1].pc = "done"
    /\ call[1].n = 3145728

(***************************************************************************)
(* HasSpaceAvailable: concurrent misses (checked under SpecQuota)          *)
(***************************************************************************)

\* A lookup now would find no figure to use.
NothingCached == CachedSize(CacheGet(cache, now)) = 0

\* C21: nothing makes a HasSpaceAvailable call wait for, or share, the walk
\* of another: a caller that is in no call, with a quota set and no figure
\* cached, can start its own DirectorySize("/") also while the walk of
\* another caller is running; so two calls can both miss, both walk at the
\* same time and both write the cache, the later write replacing the earlier.
C21_NoSingleFlight ==
    \A c \in Callers :
        (Free(c) /\ quota > 0 /\ NothingCached) => ENABLED HSAMiss(c)

\* C21 witness: at one moment, with a quota and an empty cache to begin
\* with, two calls have both missed and both walked 3 MiB (the second looked
\* before the first stored, or it would have found the figure), both have
\* stored and returned, and the cache holds the figure.
C21_Witness ==
    \E c, o \in Callers :
        /\ c # o /\ quota > 0 /\ now = 0
        /\ HSADone(c) /\ call[c].walked /\ call[c].n = 3145728
        /\ HSADone(o) /\ call[o].walked /\ call[o].n = 3145728
        /\ cache = [present |-> TRUE, value |-> 3145728, expiry |-> 5]

(***************************************************************************)
(* Filesystem.Path: the confined root (checked under SpecRoot)             *)
(***************************************************************************)

\* The string has a path separator in it.
HasSeparator(u) == \E i \in 1..Len(u) : SubSeq(u, i, i) = "/"

\* A server identifier that names one directory entry: not empty, without
\* a separator, neither "." nor "..".
Sanitized(u) == u # "" /\ ~HasSeparator(u) /\ u \notin {".", ".."}

\* The path p lies below the directory root.
Descendant(p, root) ==
    /\ p # Clean(root)
    /\ IF Clean(root) = "/" THEN IsRooted(p) ELSE HasPrefix(p, Clean(root) \o "/")

\* A Path() call has returned to caller c.
PathReturned(c) == call[c].op = "Path" /\ call[c].pc = "done"

\* C22: Path() returns Root joined with Uuid, which lies below Root when
\* Uuid is a sanitized identifier; and no step of SafePath, DirectorySize or
\* HasSpaceAvailable changes Root or Uuid, so Path() has the same value
\* before and after every sequence of calls.
C22_ConfinedRootFixed ==
    /\ [](\A c \in Callers :
             PathReturned(c) =>
                 /\ call[c].path = Join(fs.Root, fs.Uuid)
                 /\ Sanitized(fs.Uuid) => Descendant(call[c].path, fs.Root))
    /\ [][fs' = fs /\ Join(fs'.Root, fs'.Uuid) = Join(fs.Root, fs.Uuid)]_vars

\* C22 witness: Path() has returned /data/srv-1 after a quota check that
\* walked the root and cached the size of the tree.
C22_Witness ==
    /\ PathReturned(1)
    /\ call[1].path = "/data/srv-1"
    /\ fs.Root = "/data" /\ fs.Uuid = "srv-1"
    /\ cache.present

(***************************************************************************)
(* WriteToDisk: the debug flag and the path (checked under SpecWrite)      *)
(***************************************************************************)

\* In this step goroutine p, inside WriteToDisk, copies the Configuration
\* it was called with, checks its path and marshals the copy.
Marshals(p) == proc[p].pc = "marshal" /\ proc'[p].pc # "marshal"

\* In this step goroutine p, inside WriteToDisk, opens the file.
Opens(p) == proc[p].pc = "open" /\ proc'[p].pc # "open"

\* In this step goroutine p, inside WriteToDisk, writes the bytes.
WritesFile(p) == proc[p].pc = "write" /\ proc'[p].pc # "write"

\* In this step goroutine p, inside WriteToDisk, closes the file, and
\* os.WriteFile returns.
Closes(p) == proc[p].pc = "close" /\ proc'[p].pc # "close"

\* Goroutine p is inside WriteToDisk.
InWriteToDisk(p) ==
    proc[p].pc \in {"lock", "marshal", "open", "write", "close", "unlock"}

\* The files with the bytes goroutine p marshalled at the path of the
\* Configuration it holds.
WithBytes(p) == (structs[proc[p].held].path :> proc[p].b) @@ file

\* The files with the file of goroutine p opened and not written in full.
WithCut(p) == (structs[proc[p].held].path :> Cut) @@ file

\* C23 as stated: while debug mode is on through SetDebugViaFlag(true),
\* every WriteToDisk(c) marshals Debug = false and writes just that to the
\* file, and changes neither c nor the stored configuration (Debug among
\* their fields); and WriteToDisk(c) with c.path empty returns an error
\* without writing.
C23_FlagDebugNotPersisted ==
    [][\A p \in Procs :
         /\ (Marshals(p) /\ _debugViaFlag /\ structs[proc[p].held].path # "") =>
                /\ proc'[p].pc = "open"
                /\ proc'[p].b.debug = FALSE
         /\ Opens(p) => proc'[p].pc = "write"
         /\ WritesFile(p) => file' = WithBytes(p)
         /\ Closes(p) => file' = WithBytes(p)
         /\ (Marshals(p) /\ structs[proc[p].held].path = "") =>
                /\ proc'[p].pc = "unlock"
                /\ proc'[p].err # ""
                /\ file' = file
         /\ (InWriteToDisk(p) /\ proc'[p] # proc[p]) =>
                /\ structs' = structs /\ arrays' = arrays
                /\ _config' = _config /\ _debugViaFlag' = _debugViaFlag
         /\ (file' # file) => \E q \in Procs : Opens(q) \/ WritesFile(q)]_vars

\* In this step the WriteToDisk call of goroutine p comes to its return
\* with an error of yaml.Marshal or of os.WriteFile.
FailsHere(p) ==
    /\ proc'[p].pc = "unlock"
    /\ proc'[p].err \notin {"", "no path"}

\* C23, amended: while debug mode is on through SetDebugViaFlag(true), what
\* WriteToDisk(c) marshals has Debug = false; the file at c.path only ever
\* comes to hold nothing (opened, not written in full) or just those bytes;
\* a call that returns nil has written them; a call whose yaml.Marshal or
\* os.WriteFile fails returns the error, with the file as it was, cut, or
\* (after a failed Close) written; no call changes c or the stored
\* configuration (Debug among their fields); and WriteToDisk(c) with c.path
\* empty returns an error without writing.
C23_FlagDebugOffInFile ==
    [][\A p \in Procs :
         /\ (Marshals(p) /\ _debugViaFlag /\ structs[proc[p].held].path # "") =>
                \/ proc'[p].pc = "open" /\ proc'[p].b.debug = FALSE
                \/ FailsHere(p) /\ file' = file
         /\ Opens(p) =>
                \/ proc'[p].pc = "write" /\ file' = WithCut(p)
                \/ FailsHere(p) /\ file' = file
         /\ WritesFile(p) =>
                /\ proc'[p].pc = "close"
                /\ \/ proc'[p].err = "" /\ file' = WithBytes(p)
                   \/ proc'[p].err # "" /\ file' = file /\ file = WithCut(p)
         /\ Closes(p) =>
                /\ file' = file
                /\ \/ proc'[p].pc = "unlock" /\ proc'[p].err = "" /\ file = WithBytes(p)
                   \/ FailsHere(p) /\ file \in {WithBytes(p), WithCut(p)}
         /\ (Marshals(p) /\ structs[proc[p].held].path = "") =>
                /\ proc'[p].pc = "unlock"
                /\ proc'[p].err = "no path"
                /\ file' = file
         /\ (InWriteToDisk(p) /\ proc'[p] # proc[p]) =>
                /\ structs' = structs /\ arrays' = arrays
                /\ _config' = _config /\ _debugViaFlag' = _debugViaFlag
         /\ (file' # file) => \E q \in Procs : Opens(q) \/ WritesFile(q)]_vars

\* C23 witness: with debug mode on through the flag, a goroutine has
\* written a Configuration with Debug = true; the file says debug: false,
\* and the Configuration and the stored one still have Debug = true.
C23_Witness ==
    \E p \in Procs :
        /\ _debugViaFlag
        /\ proc[p].pc = "unlock" /\ proc[p].err = ""
        /\ structs[proc[p].held].Debug
        /\ structs[_config].Debug
        /\ ConfigPath \in DOMAIN file
        /\ file[ConfigPath] = proc[p].b
        /\ file[ConfigPath].debug = FALSE

(***************************************************************************)
(* HasSpaceAvailable: when it walks (checked under SpecQuota)              *)
(***************************************************************************)

\* What a Get of "disk_used" returns now.
Lookup == CacheGet(cache, now)

\* C24: with a quota above zero, HasSpaceAvailable calls DirectorySize("/")
\* exactly when the cache holds no unexpired "disk_used" entry or the figure
\* it holds is 0: an unexpired figure of 0 is walked again by every call.
C24_WalksOnMissOrZero ==
    [][\A c \in Callers :
          (quota > 0 /\ HSAEnters(c)) =>
              /\ call'[c].walked <=> (~Lookup.exists \/ Lookup.value = 0)
              /\ call'[c].walked <=>
                     (Top(c) \in DOMAIN frames' /\ frames'[Top(c)].arg = "/")]_vars

\* C24 witness: a call that found an unexpired figure of 0 in the cache is
\* walking the disk.
C24_Witness ==
    \E c \in Callers :
        /\ quota > 0
        /\ call[c].op = "HasSpaceAvailable" /\ call[c].pc = "walk"
        /\ call[c].exists /\ call[c].size = 0
        /\ Top(c) \in DOMAIN frames

(***************************************************************************)
(* the JWT algorithm and the stored token (checked under SpecJwt)          *)
(***************************************************************************)

\* Token.Token of the Configuration Get returns.
StoredToken == Copy(structs[_config]).Token

\* C25: after every sequence of Set, Update and SetDebugViaFlag calls, the
\* algorithm GetJwtAlgorithm returns is the HS256 instance made of the
\* Token.Token of the configuration Get returns.
C25_JwtKeyIsStoredToken == GetJwtAlgorithm = NewHS256(StoredToken)

(***************************************************************************)
(* UseOpenat2: decided once (checked under SpecOpenat)                     *)
(***************************************************************************)

\* The last UseOpenat2 call of goroutine p has returned.
UseOpenat2Returned(p) == proc[p].pc = "idle" /\ proc[p].ret # {}

\* C26: a UseOpenat2 call returns what every UseOpenat2 call that had
\* returned before it began did return, whatever first calls run beside it
\* and whatever Update does to system.openat_mode.
C26_DecidedOnce ==
    \A p \in Procs : UseOpenat2Returned(p) => proc[p].seen \subseteq proc[p].ret

====
